---- MODULE Spec2Model ----
(***************************************************************************)
(* JSNES: the 65C816 CPU interpreter (core/cpu/cpu.js) executing against   *)
(* the banked memory bus (core/memory/memory.js).                          *)
(*                                                                         *)
(* The CPU registers and the bus arrays are the state.  One action is one  *)
(* call of CPU.step() or CPU.reset(), or one external caller raising or    *)
(* dropping an interrupt line.  JavaScript's number operators (&, |, ^, ~, *)
(* <<, >>) are modelled on integers by And, Or, Xor, Not, Shl, Shr.        *)
(***************************************************************************)
EXTENDS Integers, Sequences, FiniteSets, TLC

VARIABLES
    A, X, Y, S, D, PC, PBR, DBR, P,   \* CPU registers (cpu.js reset())
    emulationMode,                    \* CPU.emulationMode
    cycles,                           \* CPU.cycles
    nmiPending, irqPending,           \* CPU interrupt request flags
    wram, sram,                       \* Memory.wram / Memory.sram (sparse, 0 elsewhere)
    rom,                              \* Memory.rom: [loaded, length, bytes] (sparse, 0 elsewhere)
    mapperType,                       \* Memory.mapperType
    boundMapper,                      \* Memory.mapper: the mapping function setupMapper() bound
    ioHandlers,                       \* Memory.ioHandlers
    ioLog,                            \* invocations of registered I/O callbacks
    busLog,                           \* Memory.read/write calls of the last step()
    last,                             \* what the last call was and what it returned
    pre,                              \* the CPU registers before the last call
    resets,                           \* number of reset() calls so far
    raises,                           \* number of interrupt requests made so far
    elapsed,                          \* cycles run since construction, across resets
    calls,                            \* number of calls made on the Memory object directly
    emulator,                         \* Emulator and PPU fields the frame driver uses
    activation                        \* the locals of the runFrame() call in progress

cpuVars == <<A, X, Y, S, D, PC, PBR, DBR, P, emulationMode, cycles, nmiPending, irqPending>>
busVars == <<wram, sram, rom, mapperType, boundMapper, ioHandlers, ioLog>>
frameVars == <<emulator, activation>>
vars == <<cpuVars, busVars, busLog, last, pre, resets, raises, elapsed, calls, frameVars>>

(***************************************************************************)
(* JavaScript integer operators.  Operands are reduced to their low 30     *)
(* bits (two's complement), which is exact for every use in the source:    *)
(* each result is either non-negative and below 2^30 or is masked by such  *)
(* a value before it is used.                                              *)
(***************************************************************************)
Low30(x) == x % 1073741824

RECURSIVE AndN(_, _)
AndN(a, b) ==
    IF a = 0 \/ b = 0 THEN 0
    ELSE 2 * AndN(a \div 2, b \div 2) + (IF a % 2 = 1 /\ b % 2 = 1 THEN 1 ELSE 0)

RECURSIVE OrN(_, _)
OrN(a, b) ==
    IF a = 0 THEN b
    ELSE IF b = 0 THEN a
    ELSE 2 * OrN(a \div 2, b \div 2) + (IF a % 2 = 1 \/ b % 2 = 1 THEN 1 ELSE 0)

RECURSIVE XorN(_, _)
XorN(a, b) ==
    IF a = 0 THEN b
    ELSE IF b = 0 THEN a
    ELSE 2 * XorN(a \div 2, b \div 2) + (IF a % 2 # b % 2 THEN 1 ELSE 0)

And(a, b) == AndN(Low30(a), Low30(b))
Or(a, b)  == OrN(Low30(a), Low30(b))
Xor(a, b) == XorN(Low30(a), Low30(b))
Not(a)    == (0 - a) - 1
Shl(a, n) == a * (2 ^ n)
Shr(a, n) == a \div (2 ^ n)

\* A value paired with the machine state after computing it.
RV(m, v) == [m |-> m, v |-> v]

\* With([x \in {e} |-> body]) is body with x bound to the value of e: a
\* JavaScript `const x = e; ...`, with e evaluated once.
With(f) == f[CHOOSE x \in DOMAIN f : TRUE]

\* An absent callback (null / undefined) and an unloaded ROM (this.rom = null).
NoCallback == [id |-> 0, ret |-> 0]
NoROM == [loaded |-> FALSE, length |-> 0, bytes |-> <<>>]

(***************************************************************************)
(* Memory bus (core/memory/memory.js)                                      *)
(***************************************************************************)
WramLength == \h20000
SramLength == \h20000

\* A variant of mapLoROM that tests the bank as issued, not the normalized
\* bank, for the system area.
mapLoROMUnnormalized(address) ==
    With([bank \in {And(Shr(address, 16), \hFF)} |->
    With([offset \in {And(address, \hFFFF)} |->
    With([normalizedBank \in {And(bank, \h7F)} |->
        IF normalizedBank >= \h7E
        THEN [type |-> "wram", addr |-> ((normalizedBank - \h7E) * \h10000) + offset]
        ELSE IF offset < \h8000 /\ bank < \h40
        THEN IF offset < \h2000 THEN [type |-> "wram", addr |-> offset]
             ELSE IF offset >= \h2000 /\ offset < \h6000 THEN [type |-> "io", addr |-> offset]
             ELSE [type |-> "sram", addr |-> offset - \h6000]
        ELSE IF offset >= \h8000
        THEN [type |-> "rom", addr |-> (normalizedBank * \h8000) + (offset - \h8000)]
        ELSE IF normalizedBank >= \h70 /\ normalizedBank < \h7E /\ offset < \h8000
        THEN [type |-> "sram", addr |-> ((normalizedBank - \h70) * \h8000) + offset]
        ELSE [type |-> "open", addr |-> 0] ]) ]) ])

\* Uint8Array element read: cells never written hold 0.
Cell(arr, i) == IF i \in DOMAIN arr THEN arr[i] ELSE 0
\* Uint8Array element write.
Store(arr, i, v) ==
    [j \in (IF v = 0 THEN DOMAIN arr \ {i} ELSE DOMAIN arr \cup {i}) |->
        IF j = i THEN v ELSE arr[j]]

mapLoROM(address) ==
    With([bank \in {And(Shr(address, 16), \hFF)} |->
    With([offset \in {And(address, \hFFFF)} |->
    With([normalizedBank \in {And(bank, \h7F)} |->
        IF normalizedBank >= \h7E
        THEN [type |-> "wram", addr |-> ((normalizedBank - \h7E) * \h10000) + offset]
        ELSE IF offset < \h8000 /\ normalizedBank < \h40
        THEN IF offset < \h2000 THEN [type |-> "wram", addr |-> offset]
             ELSE IF offset >= \h2000 /\ offset < \h6000 THEN [type |-> "io", addr |-> offset]
             ELSE [type |-> "sram", addr |-> offset - \h6000]
        ELSE IF offset >= \h8000
        THEN [type |-> "rom", addr |-> (normalizedBank * \h8000) + (offset - \h8000)]
        ELSE IF normalizedBank >= \h70 /\ normalizedBank < \h7E /\ offset < \h8000
        THEN [type |-> "sram", addr |-> ((normalizedBank - \h70) * \h8000) + offset]
        ELSE [type |-> "open", addr |-> 0] ]) ]) ])

\* A variant of mapHiROM whose expansion window is not rebased to 0x6000.
mapHiROMUnbased(address) ==
    With([bank \in {And(Shr(address, 16), \hFF)} |->
    With([offset \in {And(address, \hFFFF)} |->
    With([normalizedBank \in {And(bank, \h7F)} |->
        IF normalizedBank >= \h7E
        THEN [type |-> "wram", addr |-> ((normalizedBank - \h7E) * \h10000) + offset]
        ELSE IF normalizedBank < \h40 /\ offset < \h8000
        THEN IF offset < \h2000 THEN [type |-> "wram", addr |-> offset]
             ELSE IF offset >= \h2000 /\ offset < \h6000 THEN [type |-> "io", addr |-> offset]
             ELSE [type |-> "sram", addr |-> offset]
        ELSE IF normalizedBank >= \h40 \/ offset >= \h8000
        THEN [type |-> "rom",
              addr |-> IF normalizedBank < \h40
                       THEN (normalizedBank * \h10000) + offset
                       ELSE ((normalizedBank - \h40) * \h10000) + offset]
        ELSE [type |-> "open", addr |-> 0] ]) ]) ])

mapHiROM(address) ==
    With([bank \in {And(Shr(address, 16), \hFF)} |->
    With([offset \in {And(address, \hFFFF)} |->
    With([normalizedBank \in {And(bank, \h7F)} |->
        IF normalizedBank >= \h7E
        THEN [type |-> "wram", addr |-> ((normalizedBank - \h7E) * \h10000) + offset]
        ELSE IF normalizedBank < \h40 /\ offset < \h8000
        THEN IF offset < \h2000 THEN [type |-> "wram", addr |-> offset]
             ELSE IF offset >= \h2000 /\ offset < \h6000 THEN [type |-> "io", addr |-> offset]
             ELSE [type |-> "sram", addr |-> offset - \h6000]
        ELSE IF normalizedBank >= \h40 \/ offset >= \h8000
        THEN [type |-> "rom",
              addr |-> IF normalizedBank < \h40
                       THEN (normalizedBank * \h10000) + offset
                       ELSE ((normalizedBank - \h40) * \h10000) + offset]
        ELSE [type |-> "open", addr |-> 0] ]) ]) ])

\* this.mapper, as bound by setupMapper() for the given mapperType.
mapper(mt, address) == IF mt = "lorom" THEN mapLoROM(address) ELSE mapHiROM(address)

\* A variant of readIO with defaults at 0x4210 and 0x4212 only.
readIOTwoDefaults(m, address) ==
    IF address \in DOMAIN m.ioHandlers /\ m.ioHandlers[address].read # NoCallback
    THEN RV([m EXCEPT !.ioLog = Append(@, [id |-> m.ioHandlers[address].read.id,
                                          k |-> "read", a |-> address,
                                          v |-> m.ioHandlers[address].read.ret])],
            m.ioHandlers[address].read.ret)
    ELSE RV(m, CASE address = \h4210 -> \h02
                 [] address = \h4212 -> \h00
                 [] OTHER -> \hFF)

\* Memory.readIO: a registered read callback, else the per-address default.
readIO(m, address) ==
    IF address \in DOMAIN m.ioHandlers /\ m.ioHandlers[address].read # NoCallback
    THEN RV([m EXCEPT !.ioLog = Append(@, [id |-> m.ioHandlers[address].read.id,
                                          k |-> "read", a |-> address,
                                          v |-> m.ioHandlers[address].read.ret])],
            m.ioHandlers[address].read.ret)
    ELSE RV(m, CASE address = \h4210 -> \h02
                 [] address = \h4211 -> \h00
                 [] address = \h4212 -> \h00
                 [] OTHER -> \hFF)

\* Memory.writeIO: a registered write callback, else nothing.
writeIO(m, address, value) ==
    IF address \in DOMAIN m.ioHandlers /\ m.ioHandlers[address].write # NoCallback
    THEN [m EXCEPT !.ioLog = Append(@, [id |-> m.ioHandlers[address].write.id,
                                       k |-> "write", a |-> address, v |-> value])]
    ELSE m

\* Memory.read(address); busLog records the call.
MemRead(m, address) ==
    With([mapped \in {mapper(m.mapper, address)} |->
    With([mm \in {[m EXCEPT !.busLog = Append(@, [k |-> "read", a |-> address])]} |->
        CASE mapped.type = "wram" -> RV(mm, Cell(mm.wram, mapped.addr % WramLength))
          [] mapped.type = "rom" ->
                RV(mm, IF mm.rom.loaded /\ mapped.addr < mm.rom.length
                       THEN Cell(mm.rom.bytes, mapped.addr) ELSE \hFF)
          [] mapped.type = "sram" -> RV(mm, Cell(mm.sram, mapped.addr % SramLength))
          [] mapped.type = "io" -> readIO(mm, mapped.addr)
          [] OTHER -> RV(mm, \hFF) ]) ])

\* Memory.read16(address)
MemRead16(m, address) ==
    With([low \in {MemRead(m, address)} |->
    With([high \in {MemRead(low.m, address + 1)} |->
        RV(high.m, Or(Shl(high.v, 8), low.v)) ]) ])

\* A variant of write that stores the value as passed, unmasked.
MemWriteUnmasked(m, address, value) ==
    With([mapped \in {mapper(m.mapper, address)} |->
    With([mm \in {[m EXCEPT !.busLog = Append(@, [k |-> "write", a |-> address])]} |->
        CASE mapped.type = "wram" ->
                [mm EXCEPT !.wram = Store(@, mapped.addr % WramLength, value)]
          [] mapped.type = "sram" ->
                [mm EXCEPT !.sram = Store(@, mapped.addr % SramLength, value)]
          [] mapped.type = "io" -> writeIO(mm, mapped.addr, value)
          [] OTHER -> mm ]) ])

\* A variant of write that stores into the ROM image as it does into RAM.
MemWriteThroughROM(m, address, value) ==
    With([mapped \in {mapper(m.mapper, address)} |->
    With([mm \in {[m EXCEPT !.busLog = Append(@, [k |-> "write", a |-> address])]} |->
        CASE mapped.type = "wram" ->
                [mm EXCEPT !.wram = Store(@, mapped.addr % WramLength, And(value, \hFF))]
          [] mapped.type = "sram" ->
                [mm EXCEPT !.sram = Store(@, mapped.addr % SramLength, And(value, \hFF))]
          [] mapped.type = "io" -> writeIO(mm, mapped.addr, value)
          [] mapped.type = "rom" /\ mm.rom.loaded /\ mapped.addr < mm.rom.length ->
                [mm EXCEPT !.rom.bytes = Store(@, mapped.addr, And(value, \hFF))]
          [] OTHER -> mm ]) ])

\* Memory.write(address, value); busLog records the call.
MemWrite(m, address, value) ==
    With([mapped \in {mapper(m.mapper, address)} |->
    With([mm \in {[m EXCEPT !.busLog = Append(@, [k |-> "write", a |-> address])]} |->
        CASE mapped.type = "wram" ->
                [mm EXCEPT !.wram = Store(@, mapped.addr % WramLength, And(value, \hFF))]
          [] mapped.type = "sram" ->
                [mm EXCEPT !.sram = Store(@, mapped.addr % SramLength, And(value, \hFF))]
          [] mapped.type = "io" -> writeIO(mm, mapped.addr, value)
          [] OTHER -> mm ]) ])

\* Memory.write16(address, value)
MemWrite16(m, address, value) ==
    MemWrite(MemWrite(m, address, And(value, \hFF)), address + 1, And(Shr(value, 8), \hFF))

(***************************************************************************)
(* CPU (core/cpu/cpu.js)                                                   *)
(***************************************************************************)
\* CPUFlags
CARRY       == \h01
ZERO        == \h02
IRQ_DISABLE == \h04
DECIMAL     == \h08
INDEX_8BIT  == \h10
MEMORY_8BIT == \h20
OVERFLOW    == \h40
NEGATIVE    == \h80

getFlag(m, flag) == And(m.P, flag) # 0

setFlag(m, flag, value) ==
    [m EXCEPT !.P = IF value THEN Or(@, flag) ELSE And(@, Not(flag))]

updateZeroFlag(m, value) ==
    setFlag(m, ZERO, And(value, IF getFlag(m, MEMORY_8BIT) THEN \hFF ELSE \hFFFF) = 0)

updateNegativeFlag(m, value) ==
    setFlag(m, NEGATIVE, And(value, IF getFlag(m, MEMORY_8BIT) THEN \h80 ELSE \h8000) # 0)

updateNZFlags(m, value) == updateNegativeFlag(updateZeroFlag(m, value), value)

\* this.cycles += n
Cyc(m, n) == [m EXCEPT !.cycles = @ + n]

\* this.PC = (this.PC + n) & 0xFFFF
IncPC(m, n) == [m EXCEPT !.PC = And(@ + n, \hFFFF)]

\* A variant of read8 that charges no cycle.
read8Uncharged(m, address) == MemRead(m, address)

read8(m, address) == MemRead([Cyc(m, 1) EXCEPT !.charged = @ + 1], address)

read16(m, address) ==
    With([low \in {read8(m, address)} |->
    With([high \in {read8(low.m, address + 1)} |->
        RV(high.m, Or(Shl(high.v, 8), low.v)) ]) ])

write8(m, address, value) ==
    MemWrite([Cyc(m, 1) EXCEPT !.charged = @ + 1], address, And(value, \hFF))

write16(m, address, value) ==
    write8(write8(m, address, And(value, \hFF)), address + 1, And(Shr(value, 8), \hFF))

push8(m, value) ==
    [write8(m, m.S, And(value, \hFF)) EXCEPT !.S = And(@ - 1, \hFFFF)]

push16(m, value) == push8(push8(m, And(Shr(value, 8), \hFF)), And(value, \hFF))

\* A variant of pop8 that reads at S and increments afterwards.
pop8ReadFirst(m) == read8([m EXCEPT !.S = And(@ + 1, \hFFFF)], m.S)

pop8(m) == read8([m EXCEPT !.S = And(@ + 1, \hFFFF)], And(m.S + 1, \hFFFF))

pop16(m) ==
    With([low \in {pop8(m)} |->
    With([high \in {pop8(low.m)} |->
        RV(high.m, Or(Shl(high.v, 8), low.v)) ]) ])

\* A variant of the interrupt sequence that drops to emulation mode.
InterruptIntoEmulation(m, emuVector, nativeVector) ==
    With([m1 \in {push8(m, m.PBR)} |->
    With([m2 \in {push16(m1, m1.PC)} |->
    With([m3 \in {setFlag(push8(m2, m2.P), IRQ_DISABLE, TRUE)} |->
    With([newPC \in {MemRead16(m3, IF m3.emulationMode THEN emuVector ELSE nativeVector)} |->
        Cyc([newPC.m EXCEPT !.PC = newPC.v, !.PBR = 0, !.emulationMode = TRUE], 7)
    ]) ]) ]) ])

\* The body of handleNMI and of handleIRQ, which differ in the vectors only.
Interrupt(m, emuVector, nativeVector) ==
    With([m1 \in {push8(m, m.PBR)} |->
    With([m2 \in {push16(m1, m1.PC)} |->
    With([m3 \in {setFlag(push8(m2, m2.P), IRQ_DISABLE, TRUE)} |->
    With([newPC \in {MemRead16(m3, IF m3.emulationMode THEN emuVector ELSE nativeVector)} |->
        Cyc([newPC.m EXCEPT !.PC = newPC.v, !.PBR = 0], 7) ]) ]) ]) ])

\* A variant of handleNMI that takes the emulation-mode vector in both modes.
handleNMIEmulationVector(m) == Interrupt(m, \hFFFA, \hFFFA)

handleNMI(m) == Interrupt(m, \hFFFA, \hFFEA)

handleIRQ(m) == Interrupt(m, \hFFFE, \hFFEE)

\* ---- addressing modes: each returns the effective address -------------
immediate(m) ==
    RV(IncPC(m, IF getFlag(m, MEMORY_8BIT) THEN 1 ELSE 2), m.PC)

absolute(m) ==
    With([addr \in {read16(m, m.PC)} |->
        RV(IncPC(addr.m, 2), addr.v) ])

absoluteX(m) ==
    With([base \in {read16(m, m.PC)} |->
        RV(IncPC(base.m, 2), And(base.v + base.m.X, \hFFFF)) ])

absoluteY(m) ==
    With([base \in {read16(m, m.PC)} |->
        RV(IncPC(base.m, 2), And(base.v + base.m.Y, \hFFFF)) ])

zeroPage(m) ==
    With([addr \in {read8(m, m.PC)} |->
        RV(IncPC(addr.m, 1), addr.v) ])

zeroPageX(m) ==
    With([base \in {read8(m, m.PC)} |->
        RV(IncPC(base.m, 1), And(base.v + base.m.X, \hFF)) ])

zeroPageY(m) ==
    With([base \in {read8(m, m.PC)} |->
        RV(IncPC(base.m, 1), And(base.v + base.m.Y, \hFF)) ])

indirect(m) ==
    With([ptr \in {read16(m, m.PC)} |->
        read16(IncPC(ptr.m, 2), ptr.v) ])

directPage(m) ==
    With([offset \in {read8(m, m.PC)} |->
        RV(IncPC(offset.m, 1), And(offset.m.D + offset.v, \hFFFF)) ])

directPageIndirect(m) ==
    With([dp \in {read8(m, m.PC)} |->
        read16(IncPC(dp.m, 1), And(dp.m.D + dp.v, \hFFFF)) ])

directPageIndirectIndexedY(m) ==
    With([dp \in {read8(m, m.PC)} |->
    With([base \in {read16(IncPC(dp.m, 1), And(dp.m.D + dp.v, \hFFFF))} |->
        RV(base.m, And(base.v + base.m.Y, \hFFFF)) ]) ])

\* The three-byte pointer read shared by the long addressing modes.
LongPointer(m, addr) ==
    With([low \in {read8(m, addr)} |->
    With([mid \in {read8(low.m, addr + 1)} |->
    With([high \in {read8(mid.m, addr + 2)} |->
        RV(high.m, Or(Or(Shl(high.v, 16), Shl(mid.v, 8)), low.v)) ]) ]) ])

directPageIndirectLong(m) ==
    With([dp \in {read8(m, m.PC)} |->
        LongPointer(IncPC(dp.m, 1), And(dp.m.D + dp.v, \hFFFF)) ])

directPageIndirectLongIndexedY(m) ==
    With([dp \in {read8(m, m.PC)} |->
    With([base \in {LongPointer(IncPC(dp.m, 1), And(dp.m.D + dp.v, \hFFFF))} |->
        RV(base.m, And(base.v + base.m.Y, \hFFFFFF)) ]) ])

absoluteLong(m) ==
    With([ptr \in {LongPointer(m, m.PC)} |->
        RV(IncPC(ptr.m, 3), ptr.v) ])

absoluteLongIndexedX(m) ==
    With([base \in {LongPointer(m, m.PC)} |->
        RV(IncPC(base.m, 3), And(base.v + base.m.X, \hFFFFFF)) ])

stackRelative(m) ==
    With([offset \in {read8(m, m.PC)} |->
        RV(IncPC(offset.m, 1), And(offset.m.S + offset.v, \hFFFF)) ])

stackRelativeIndirectIndexedY(m) ==
    With([offset \in {read8(m, m.PC)} |->
    With([base \in {read16(IncPC(offset.m, 1), And(offset.m.S + offset.v, \hFFFF))} |->
        RV(base.m, And(base.v + base.m.Y, \hFFFF)) ]) ])

absoluteIndexedIndirect(m) ==
    With([base \in {read16(m, m.PC)} |->
        read16(IncPC(base.m, 2), And(base.v + base.m.X, \hFFFF)) ])

directPageIndexedIndirectX(m) ==
    With([dp \in {read8(m, m.PC)} |->
        MemRead16(IncPC(dp.m, 1), And(dp.m.D + dp.v + And(dp.m.X, \hFF), \hFFFF)) ])

directPageX(m) ==
    With([dp \in {read8(m, m.PC)} |->
        RV(IncPC(dp.m, 1), And(dp.m.D + dp.v + And(dp.m.X, \hFF), \hFFFF)) ])

\* ---- instruction bodies: r is the RV of an addressing mode -------------
\* getFlag(MEMORY_8BIT) ? read8(addr) : read16(addr)
ReadM(m, addr) == IF getFlag(m, MEMORY_8BIT) THEN read8(m, addr) ELSE read16(m, addr)
\* getFlag(INDEX_8BIT) ? read8(addr) : read16(addr)
ReadX(m, addr) == IF getFlag(m, INDEX_8BIT) THEN read8(m, addr) ELSE read16(m, addr)
\* getFlag(MEMORY_8BIT) ? write8(addr, value) : write16(addr, value)
WriteM(m, addr, value) ==
    IF getFlag(m, MEMORY_8BIT) THEN write8(m, addr, value) ELSE write16(m, addr, value)
\* getFlag(MEMORY_8BIT) ? 0xFF : 0xFFFF, and the like
MaskM(m) == IF getFlag(m, MEMORY_8BIT) THEN \hFF ELSE \hFFFF
SignM(m) == IF getFlag(m, MEMORY_8BIT) THEN \h80 ELSE \h8000
MaskX(m) == IF getFlag(m, INDEX_8BIT) THEN \hFF ELSE \hFFFF
SignX(m) == IF getFlag(m, INDEX_8BIT) THEN \h80 ELSE \h8000

\* this.REG = value; this.updateNZFlags(this.REG)
SetNZ(m, reg, value) == updateNZFlags([m EXCEPT ![reg] = value], value)

LDA(r) ==
    IF getFlag(r.m, MEMORY_8BIT)
    THEN With([value \in {read8(r.m, r.v)} |->
             SetNZ(value.m, "A", Or(And(value.m.A, \hFF00), value.v)) ])
    ELSE With([value \in {read16(r.m, r.v)} |->
             SetNZ(value.m, "A", value.v) ])

LDX(r) ==
    With([value \in {ReadX(r.m, r.v)} |-> SetNZ(value.m, "X", value.v) ])

LDY(r) ==
    With([value \in {ReadX(r.m, r.v)} |-> SetNZ(value.m, "Y", value.v) ])

STA(r) ==
    IF getFlag(r.m, MEMORY_8BIT)
    THEN write8(r.m, r.v, And(r.m.A, \hFF))
    ELSE write16(r.m, r.v, r.m.A)

STX(r) ==
    IF getFlag(r.m, INDEX_8BIT)
    THEN write8(r.m, r.v, And(r.m.X, \hFF))
    ELSE write16(r.m, r.v, r.m.X)

STY(r) ==
    IF getFlag(r.m, INDEX_8BIT)
    THEN write8(r.m, r.v, And(r.m.Y, \hFF))
    ELSE write16(r.m, r.v, r.m.Y)

ADC(r) ==
    With([value \in {ReadM(r.m, r.v)} |->
    With([result \in {value.m.A + value.v + (IF getFlag(value.m, CARRY) THEN 1 ELSE 0)} |->
    With([m1 \in {setFlag(value.m, CARRY, result > MaskM(value.m))} |->
    With([m2 \in {setFlag(m1, OVERFLOW,
                          And(And(Xor(m1.A, result), Xor(value.v, result)), SignM(m1)) # 0)} |->
        SetNZ(m2, "A", And(result, MaskM(m2))) ]) ]) ]) ])

\* A variant of SBC that stores the difference without masking it.
SBCUnmasked(r) ==
    With([value \in {ReadM(r.m, r.v)} |->
    With([result \in {(value.m.A - value.v) - (IF getFlag(value.m, CARRY) THEN 0 ELSE 1)} |->
    With([m1 \in {setFlag(value.m, CARRY, result >= 0)} |->
    With([m2 \in {setFlag(m1, OVERFLOW,
                          And(And(Xor(m1.A, value.v), Xor(m1.A, result)), SignM(m1)) # 0)} |->
        SetNZ(m2, "A", result) ]) ]) ]) ])

SBC(r) ==
    With([value \in {ReadM(r.m, r.v)} |->
    With([result \in {(value.m.A - value.v) - (IF getFlag(value.m, CARRY) THEN 0 ELSE 1)} |->
    With([m1 \in {setFlag(value.m, CARRY, result >= 0)} |->
    With([m2 \in {setFlag(m1, OVERFLOW,
                          And(And(Xor(m1.A, value.v), Xor(m1.A, result)), SignM(m1)) # 0)} |->
        SetNZ(m2, "A", And(result, MaskM(m2))) ]) ]) ]) ])

AND(r) ==
    With([value \in {ReadM(r.m, r.v)} |->
        SetNZ(value.m, "A", And(And(value.m.A, value.v), MaskM(value.m))) ])

ORA(r) ==
    With([value \in {ReadM(r.m, r.v)} |->
        SetNZ(value.m, "A", And(Or(value.m.A, value.v), MaskM(value.m))) ])

EOR(r) ==
    With([value \in {ReadM(r.m, r.v)} |->
        SetNZ(value.m, "A", And(Xor(value.m.A, value.v), MaskM(value.m))) ])

\* The tail of INC, DEC, ASL, LSR, ROL, ROR: write value at the accumulator
\* width, then updateNZFlags(value).
WriteBack(m, addr, value) == updateNZFlags(WriteM(m, addr, value), value)

INC(r) ==
    With([value \in {ReadM(r.m, r.v)} |->
        WriteBack(value.m, r.v, And(value.v + 1, MaskM(value.m))) ])

DEC(r) ==
    With([value \in {ReadM(r.m, r.v)} |->
        WriteBack(value.m, r.v, And(value.v - 1, MaskM(value.m))) ])

\* The flag updates of CMP / CPX / CPY: reg is this.A, this.X or this.Y;
\* mask and sign follow the width flag of the instruction.
Compare(m, reg, value, mask, sign) ==
    With([result \in {And(reg - value, \hFFFFFF)} |->
        setFlag(setFlag(setFlag(m, CARRY, reg >= value),
                        ZERO, And(result, mask) = 0),
                NEGATIVE, And(result, sign) # 0) ])

CMP(r) ==
    With([value \in {ReadM(r.m, r.v)} |->
        Compare(value.m, value.m.A, value.v, MaskM(value.m), SignM(value.m)) ])

CPX(r) ==
    With([value \in {ReadX(r.m, r.v)} |->
        Compare(value.m, value.m.X, value.v, MaskX(value.m), SignX(value.m)) ])

CPY(r) ==
    With([value \in {ReadX(r.m, r.v)} |->
        Compare(value.m, value.m.Y, value.v, MaskX(value.m), SignX(value.m)) ])

ASL(r) ==
    With([value \in {ReadM(r.m, r.v)} |->
        WriteBack(setFlag(value.m, CARRY, And(value.v, SignM(value.m)) # 0),
                  r.v, And(Shl(value.v, 1), MaskM(value.m))) ])

LSR(r) ==
    With([value \in {ReadM(r.m, r.v)} |->
        WriteBack(setFlag(value.m, CARRY, And(value.v, \h01) # 0),
                  r.v, And(Shr(value.v, 1), MaskM(value.m))) ])

ROL(r) ==
    With([value \in {ReadM(r.m, r.v)} |->
    With([oldCarry \in {IF getFlag(value.m, CARRY) THEN 1 ELSE 0} |->
        WriteBack(setFlag(value.m, CARRY, And(value.v, SignM(value.m)) # 0),
                  r.v, And(Or(Shl(value.v, 1), oldCarry), MaskM(value.m))) ]) ])

ROR(r) ==
    With([value \in {ReadM(r.m, r.v)} |->
    With([oldCarry \in {IF getFlag(value.m, CARRY) THEN SignM(value.m) ELSE 0} |->
        WriteBack(setFlag(value.m, CARRY, And(value.v, \h01) # 0),
                  r.v, And(Or(Shr(value.v, 1), oldCarry), MaskM(value.m))) ]) ])

BIT(r) ==
    With([value \in {ReadM(r.m, r.v)} |->
        setFlag(setFlag(setFlag(value.m, ZERO,
                                And(And(value.m.A, value.v), MaskM(value.m)) = 0),
                        OVERFLOW,
                        And(value.v, IF getFlag(value.m, MEMORY_8BIT) THEN \h40 ELSE \h4000) # 0),
                NEGATIVE, And(value.v, SignM(value.m)) # 0) ])

\* ---- opcode handlers (buildOpcodeTable) --------------------------------
\* TAX, TAY, TXA, TYA, TXY, TSX, TYX: dst = src & (width ? 0xFF : 0xFFFF)
\* A variant of the register transfers that always copies the low byte only.
TransferLowByte(m, dst, src, widthFlag) ==
    Cyc(SetNZ(m, dst, And(m[src], \hFF)), 2)

Transfer(m, dst, src, widthFlag) ==
    Cyc(SetNZ(m, dst, And(m[src], IF getFlag(m, widthFlag) THEN \hFF ELSE \hFFFF)), 2)

\* PHA, PHX, PHY
PushReg(m, reg, widthFlag) ==
    Cyc(IF getFlag(m, widthFlag) THEN push8(m, m[reg]) ELSE push16(m, m[reg]), 3)

\* PLX, PLY
PullIndex(m, reg) ==
    With([value \in {IF getFlag(m, INDEX_8BIT) THEN pop8(m) ELSE pop16(m)} |->
        Cyc(SetNZ(value.m, reg, value.v), 4) ])

PLA(m) ==
    IF getFlag(m, MEMORY_8BIT)
    THEN With([value \in {pop8(m)} |->
             Cyc(SetNZ(value.m, "A", Or(And(value.m.A, \hFF00), value.v)), 4) ])
    ELSE With([value \in {pop16(m)} |->
             Cyc(SetNZ(value.m, "A", value.v), 4) ])

\* INC A, DEC A, INX, INY, DEX, DEY
IncDecReg(m, reg, delta, widthFlag) ==
    Cyc(SetNZ(m, reg, And(m[reg] + delta, IF getFlag(m, widthFlag) THEN \hFF ELSE \hFFFF)), 2)

\* BPL, BMI, BVC, BVS, BCC, BCS, BNE, BEQ and BRA (taken = TRUE)
Branch(m, taken) ==
    With([offset \in {read8(m, m.PC)} |->
        IF taken
        THEN Cyc(IncPC(IncPC(offset.m, 1),
                       IF offset.v < \h80 THEN offset.v ELSE offset.v - \h100), 3)
        ELSE Cyc(IncPC(offset.m, 1), 2) ])

BRL(m) ==
    With([offset \in {read16(m, m.PC)} |->
        Cyc(IncPC(IncPC(offset.m, 2),
                  IF offset.v < \h8000 THEN offset.v ELSE offset.v - \h10000), 4) ])

\* BRK (vectors 0xFFFE / 0xFFE6) and COP (0xFFF4 / 0xFFE4)
SoftInterrupt(m, emuVector, nativeVector) ==
    With([m0 \in {IncPC(m, 1)} |->
    With([m1 \in {push8(m0, m0.PBR)} |->
    With([m2 \in {push16(m1, m1.PC)} |->
    With([m3 \in {setFlag(setFlag(push8(m2, m2.P), IRQ_DISABLE, TRUE), DECIMAL, FALSE)} |->
    With([newPC \in {MemRead16(m3, IF m3.emulationMode THEN emuVector ELSE nativeVector)} |->
        Cyc([newPC.m EXCEPT !.PC = newPC.v, !.PBR = 0], 7) ]) ]) ]) ]) ])

JMP(m) ==
    With([target \in {read16(m, m.PC)} |->
        Cyc([target.m EXCEPT !.PC = target.v], 3) ])

JMPIndirect(m) ==
    With([target \in {indirect(m)} |->
        Cyc([target.m EXCEPT !.PC = target.v], 5) ])

JMPIndexedIndirect(m) ==
    With([target \in {absoluteIndexedIndirect(m)} |->
        Cyc([target.m EXCEPT !.PC = target.v], 6) ])

JSR(m) ==
    With([target \in {read16(m, m.PC)} |->
    With([m1 \in {IncPC(target.m, 1)} |->
        Cyc([push16(m1, m1.PC) EXCEPT !.PC = target.v], 6) ]) ])

RTS(m) ==
    With([pc \in {pop16(m)} |->
        Cyc([pc.m EXCEPT !.PC = And(pc.v + 1, \hFFFF)], 6) ])

RTI(m) ==
    With([p \in {pop8(m)} |->
    With([pc \in {pop16([p.m EXCEPT !.P = p.v])} |->
        IF ~pc.m.emulationMode
        THEN With([pbr \in {pop8(pc.m)} |->
                 Cyc([pbr.m EXCEPT !.PC = pc.v, !.PBR = pbr.v], 6) ])
        ELSE Cyc([pc.m EXCEPT !.PC = pc.v], 6) ]) ])

JSL(m) ==
    With([targetLow \in {read16(m, m.PC)} |->
    With([m1 \in {IncPC(targetLow.m, 2)} |->
    With([targetBank \in {read8(m1, m1.PC)} |->
    With([m2 \in {IncPC(targetBank.m, 1)} |->
    With([m3 \in {push8(m2, m2.PBR)} |->
        Cyc([push16(m3, m3.PC) EXCEPT !.PBR = targetBank.v, !.PC = targetLow.v], 8)
    ]) ]) ]) ]) ])

RTL(m) ==
    With([pc \in {pop16(m)} |->
    With([pbr \in {pop8(pc.m)} |->
        Cyc([pbr.m EXCEPT !.PC = And(pc.v + 1, \hFFFF), !.PBR = pbr.v], 6) ]) ])

JML(m) ==
    With([low \in {read16(m, m.PC)} |->
    With([bank \in {read8(low.m, low.m.PC + 2)} |->
        Cyc([bank.m EXCEPT !.PC = low.v, !.PBR = bank.v], 4) ]) ])

JMLIndirect(m) ==
    With([ptr \in {read16(m, m.PC)} |->
    With([low \in {read8(IncPC(ptr.m, 2), ptr.v)} |->
    With([mid \in {read8(low.m, ptr.v + 1)} |->
    With([bank \in {read8(mid.m, ptr.v + 2)} |->
        Cyc([bank.m EXCEPT !.PC = Or(Shl(mid.v, 8), low.v), !.PBR = bank.v], 6)
    ]) ]) ]) ])

JSRIndexed(m) ==
    With([target \in {absoluteIndexedIndirect(m)} |->
        Cyc([push16(target.m, target.m.PC - 1) EXCEPT !.PC = target.v], 8) ])

\* TXS (src = X) and TCS (src = A)
ToStack(m, src) ==
    Cyc([m EXCEPT !.S = IF m.emulationMode THEN Or(\h0100, And(m[src], \hFF)) ELSE m[src]], 2)

\* this.REG = value; Z and N from value at the register's own width
SetZN(m, reg, value, sign) ==
    setFlag(setFlag([m EXCEPT ![reg] = value], ZERO, value = 0),
            NEGATIVE, And(value, sign) # 0)

PLB(m) ==
    With([value \in {pop8(m)} |-> Cyc(SetZN(value.m, "DBR", value.v, \h80), 4) ])

PLD(m) ==
    With([value \in {pop16(m)} |-> Cyc(SetZN(value.m, "D", value.v, \h8000), 5) ])

PLP(m) ==
    With([value \in {pop8(m)} |-> Cyc([value.m EXCEPT !.P = value.v], 4) ])

REP(m) ==
    With([mask \in {read8(m, m.PC)} |->
        Cyc([IncPC(mask.m, 1) EXCEPT !.P = And(@, Not(mask.v))], 3) ])

SEP(m) ==
    With([mask \in {read8(m, m.PC)} |->
        Cyc([IncPC(mask.m, 1) EXCEPT !.P = Or(@, mask.v)], 3) ])

TCD(m) == Cyc(SetZN(m, "D", m.A, \h8000), 2)

\* TSC (src = S) and TDC (src = D)
ToAccumulator(m, src) == Cyc(SetNZ(m, "A", m[src]), 2)

\* A variant of XCE that leaves S, X and Y alone on entering emulation mode.
XCEKeepingRegisters(m) ==
    With([m1 \in {[setFlag(m, CARRY, m.emulationMode)
                    EXCEPT !.emulationMode = getFlag(m, CARRY)]} |->
        IF m1.emulationMode
        THEN Cyc(setFlag(setFlag(m1, MEMORY_8BIT, TRUE), INDEX_8BIT, TRUE), 2)
        ELSE Cyc(m1, 2) ])

XCE(m) ==
    With([m1 \in {[setFlag(m, CARRY, m.emulationMode)
                    EXCEPT !.emulationMode = getFlag(m, CARRY)]} |->
        IF m1.emulationMode
        THEN Cyc([setFlag(setFlag(m1, MEMORY_8BIT, TRUE), INDEX_8BIT, TRUE)
                    EXCEPT !.S = Or(\h0100, And(@, \hFF)),
                           !.X = And(@, \hFF),
                           !.Y = And(@, \hFF)], 2)
        ELSE Cyc(m1, 2) ])

XBA(m) ==
    With([low \in {And(m.A, \hFF)} |->
    With([high \in {And(Shr(m.A, 8), \hFF)} |->
        Cyc(updateNZFlags([m EXCEPT !.A = Or(Shl(low, 8), high)], low), 3) ]) ])

PER(m) ==
    With([offset \in {read16(m, m.PC)} |->
    With([m1 \in {IncPC(offset.m, 2)} |->
        Cyc(push16(m1, And(m1.PC + offset.v, \hFFFF)), 6) ]) ])

PEI(m) ==
    With([dp \in {read8(m, m.PC)} |->
    With([value \in {read16(IncPC(dp.m, 1), And(dp.m.D + dp.v, \hFFFF))} |->
        Cyc(push16(value.m, value.v), 6) ]) ])

PEA(m) ==
    With([value \in {read16(m, m.PC)} |->
        Cyc(push16(IncPC(value.m, 2), value.v), 5) ])

\* ASL A, LSR A, ROL A, ROR A: the table entry computes the new carry and the
\* shifted value; the result is masked to the accumulator width.
ShiftA(m, carryOut, shifted) ==
    Cyc(SetNZ(setFlag(m, CARRY, carryOut), "A", And(shifted, MaskM(m))), 2)

\* STZ dp / dp,X / addr / addr,X
STZ(r) == WriteM(r.m, r.v, 0)

TSB(r) ==
    With([value \in {ReadM(r.m, r.v)} |->
        WriteM(setFlag(value.m, ZERO, And(And(value.m.A, value.v), MaskM(value.m)) = 0),
               r.v, Or(value.v, value.m.A)) ])

TRB(r) ==
    With([value \in {ReadM(r.m, r.v)} |->
        WriteM(setFlag(value.m, ZERO, And(And(value.m.A, value.v), MaskM(value.m)) = 0),
               r.v, And(value.v, Not(value.m.A))) ])

\* 0x89 BIT #const: only the Zero flag
BITImmediate(m) ==
    With([addr \in {immediate(m)} |->
    With([value \in {ReadM(addr.m, addr.v)} |->
        Cyc(setFlag(value.m, ZERO, And(And(value.m.A, value.v), MaskM(value.m)) = 0), 2)
    ]) ])

\* 0x01 ORA (dp,X) and 0x03 ORA sr,S: one byte through this.memory.read,
\* OR-ed into the whole of A, flags from the low byte's sign and A === 0.
ORA8(r) ==
    With([value \in {MemRead(r.m, r.v)} |->
        SetZN(value.m, "A", Or(value.m.A, value.v), \h80) ])

\* 0x24 BIT zeropage and 0x34 BIT dp,X
BIT8(r) ==
    With([value \in {MemRead(r.m, r.v)} |->
        setFlag(setFlag(setFlag(value.m, ZERO, And(value.m.A, value.v) = 0),
                        OVERFLOW, And(value.v, \h40) # 0),
                NEGATIVE, And(value.v, \h80) # 0) ])

\* 0x0E ASL absolute
ASL8(r) ==
    With([old \in {MemRead(r.m, r.v)} |->
    With([value \in {And(Shl(old.v, 1), \hFF)} |->
        setFlag(setFlag(MemWrite(setFlag(old.m, CARRY, And(old.v, \h80) # 0), r.v, value),
                        ZERO, value = 0),
                NEGATIVE, And(value, \h80) # 0) ]) ])

\* 0xDD CMP absolute,X
CMP8(r) ==
    With([value \in {MemRead(r.m, r.v)} |->
        setFlag(setFlag(setFlag(value.m, CARRY, value.m.A >= value.v),
                        ZERO, And(value.m.A - value.v, \hFF) = 0),
                NEGATIVE, And(value.m.A - value.v, \h80) # 0) ])

\* MVN (step = 1) and MVP (step = -1): one byte per call
\* A variant of BlockMove that advances PC past the instruction after every
\* byte.
BlockMoveOnce(m, step) ==
    With([destBank \in {read8(m, m.PC)} |->
    With([srcBank \in {read8(destBank.m, destBank.m.PC + 1)} |->
    With([m1 \in {IncPC(srcBank.m, 2)} |->
    With([value \in {MemRead(m1, Or(Shl(srcBank.v, 16), m1.X))} |->
    With([m2 \in {[MemWrite(value.m, Or(Shl(destBank.v, 16), m1.Y), value.v)
                    EXCEPT !.X = And(@ + step, \hFFFF),
                           !.Y = And(@ + step, \hFFFF),
                           !.A = And(@ - 1, \hFFFF)]} |->
        Cyc(m2, 7) ]) ]) ]) ]) ])

BlockMove(m, step) ==
    With([destBank \in {read8(m, m.PC)} |->
    With([srcBank \in {read8(destBank.m, destBank.m.PC + 1)} |->
    With([m1 \in {IncPC(srcBank.m, 2)} |->
    With([value \in {MemRead(m1, Or(Shl(srcBank.v, 16), m1.X))} |->
    With([m2 \in {[MemWrite(value.m, Or(Shl(destBank.v, 16), m1.Y), value.v)
                    EXCEPT !.X = And(@ + step, \hFFFF),
                           !.Y = And(@ + step, \hFFFF),
                           !.A = And(@ - 1, \hFFFF)]} |->
        Cyc(IF m2.A # \hFFFF THEN IncPC(m2, -3) ELSE m2, 7) ]) ]) ]) ]) ])

\* Calling a method the class does not define raises a TypeError.
Throw(m) == [m EXCEPT !.threw = TRUE]
\* this.opcodeTable[op].call(this): the final contents of the table that
\* buildOpcodeTable() returns, one arm per entry.
Handler(op, m) ==
    CASE op = \h00 -> SoftInterrupt(m, \hFFFE, \hFFE6)
      [] op = \h01 -> Cyc(ORA8(directPageIndexedIndirectX(m)), 6)
      [] op = \h02 -> SoftInterrupt(m, \hFFF4, \hFFE4)
      [] op = \h03 -> Cyc(ORA8(stackRelative(m)), 4)
      [] op = \h04 -> Cyc(TSB(directPage(m)), 5)
      [] op = \h05 -> Cyc(ORA(directPage(m)), 3)
      [] op = \h06 -> Cyc(ASL(directPage(m)), 5)
      [] op = \h07 -> Cyc(ORA(directPageIndirectLong(m)), 6)
      [] op = \h08 -> Cyc(push8(m, m.P), 3)
      [] op = \h09 -> Cyc(ORA(immediate(m)), 2)
      [] op = \h0A -> ShiftA(m, And(m.A, SignM(m)) # 0, Shl(m.A, 1))
      [] op = \h0B -> Cyc(push16(m, m.D), 4)
      [] op = \h0C -> Cyc(TSB(absolute(m)), 6)
      [] op = \h0D -> Cyc(ORA(absolute(m)), 4)
      [] op = \h0E -> Cyc(ASL8(absolute(m)), 6)
      [] op = \h0F -> Cyc(ORA(absoluteLong(m)), 5)
      [] op = \h10 -> Branch(m, ~getFlag(m, NEGATIVE))
      [] op = \h11 -> Cyc(ORA(directPageIndirectIndexedY(m)), 5)
      [] op = \h12 -> Cyc(ORA(directPageIndirect(m)), 5)
      [] op = \h13 -> Cyc(ORA(stackRelativeIndirectIndexedY(m)), 7)
      [] op = \h14 -> Cyc(TRB(directPage(m)), 5)
      [] op = \h15 -> Cyc(ORA(directPageX(m)), 4)
      [] op = \h16 -> Cyc(ASL(directPageX(m)), 6)
      [] op = \h17 -> Cyc(ORA(directPageIndirectLongIndexedY(m)), 6)
      [] op = \h18 -> Cyc(setFlag(m, CARRY, FALSE), 2)
      [] op = \h19 -> Cyc(ORA(absoluteY(m)), 4)
      [] op = \h1A -> IncDecReg(m, "A", 1, MEMORY_8BIT)
      [] op = \h1B -> ToStack(m, "A")
      [] op = \h1C -> Cyc(TRB(absolute(m)), 6)
      [] op = \h1D -> Cyc(ORA(absoluteX(m)), 4)
      [] op = \h1E -> Cyc(ASL(absoluteX(m)), 7)
      [] op = \h1F -> Cyc(ORA(absoluteLongIndexedX(m)), 5)
      [] op = \h20 -> JSR(m)
      [] op = \h21 -> Cyc(AND(directPageIndexedIndirectX(m)), 6)
      [] op = \h22 -> JSL(m)
      [] op = \h23 -> Cyc(AND(stackRelative(m)), 4)
      [] op = \h24 -> Cyc(BIT8(zeroPage(m)), 3)
      [] op = \h25 -> Cyc(AND(directPage(m)), 3)
      [] op = \h26 -> Cyc(ROL(directPage(m)), 5)
      [] op = \h27 -> Cyc(AND(directPageIndirectLong(m)), 6)
      [] op = \h28 -> PLP(m)
      [] op = \h29 -> Cyc(AND(immediate(m)), 2)
      [] op = \h2A -> ShiftA(m, And(m.A, SignM(m)) # 0, Or(Shl(m.A, 1), IF getFlag(m, CARRY) THEN 1 ELSE 0))
      [] op = \h2B -> PLD(m)
      [] op = \h2C -> Cyc(BIT(absolute(m)), 4)
      [] op = \h2D -> Cyc(AND(absolute(m)), 4)
      [] op = \h2E -> Cyc(ROL(absolute(m)), 6)
      [] op = \h2F -> Cyc(AND(absoluteLong(m)), 5)
      [] op = \h30 -> Branch(m, getFlag(m, NEGATIVE))
      [] op = \h31 -> Cyc(AND(directPageIndirectIndexedY(m)), 5)
      [] op = \h32 -> Cyc(AND(directPageIndirect(m)), 5)
      [] op = \h33 -> Cyc(AND(stackRelativeIndirectIndexedY(m)), 7)
      [] op = \h34 -> Cyc(BIT8(directPageX(m)), 4)
      [] op = \h35 -> Cyc(AND(directPageX(m)), 4)
      [] op = \h36 -> Cyc(ROL(directPageX(m)), 6)
      [] op = \h37 -> Cyc(AND(directPageIndirectLongIndexedY(m)), 6)
      [] op = \h38 -> Cyc(setFlag(m, CARRY, TRUE), 2)
      [] op = \h39 -> Cyc(AND(absoluteY(m)), 4)
      [] op = \h3A -> IncDecReg(m, "A", -1, MEMORY_8BIT)
      [] op = \h3B -> ToAccumulator(m, "S")
      [] op = \h3C -> Cyc(BIT(absoluteX(m)), 4)
      [] op = \h3D -> Cyc(AND(absoluteX(m)), 4)
      [] op = \h3E -> Cyc(ROL(absoluteX(m)), 7)
      [] op = \h3F -> Cyc(AND(absoluteLongIndexedX(m)), 5)
      [] op = \h40 -> RTI(m)
      [] op = \h41 -> Cyc(EOR(directPageIndexedIndirectX(m)), 6)
      [] op = \h42 -> [m EXCEPT !.PC = And(@ + 1, \hFFFF)]
      [] op = \h43 -> Cyc(EOR(stackRelative(m)), 4)
      [] op = \h44 -> BlockMove(m, -1)
      [] op = \h45 -> Cyc(EOR(directPage(m)), 3)
      [] op = \h46 -> Cyc(LSR(directPage(m)), 5)
      [] op = \h47 -> Cyc(EOR(directPageIndirectLong(m)), 6)
      [] op = \h48 -> PushReg(m, "A", MEMORY_8BIT)
      [] op = \h49 -> Cyc(EOR(immediate(m)), 2)
      [] op = \h4A -> ShiftA(m, And(m.A, \h01) # 0, Shr(m.A, 1))
      [] op = \h4B -> Cyc(push8(m, m.PBR), 3)
      [] op = \h4C -> JMP(m)
      [] op = \h4D -> Cyc(EOR(absolute(m)), 4)
      [] op = \h4E -> Cyc(LSR(absolute(m)), 6)
      [] op = \h4F -> Cyc(EOR(absoluteLong(m)), 5)
      [] op = \h50 -> Branch(m, ~getFlag(m, OVERFLOW))
      [] op = \h51 -> Cyc(EOR(directPageIndirectIndexedY(m)), 5)
      [] op = \h52 -> Cyc(EOR(directPageIndirect(m)), 5)
      [] op = \h53 -> Cyc(EOR(stackRelativeIndirectIndexedY(m)), 7)
      [] op = \h54 -> BlockMove(m, 1)
      [] op = \h55 -> Cyc(EOR(directPageX(m)), 4)
      [] op = \h56 -> Cyc(LSR(directPageX(m)), 6)
      [] op = \h57 -> Cyc(EOR(directPageIndirectLongIndexedY(m)), 6)
      [] op = \h58 -> Cyc(setFlag(m, IRQ_DISABLE, FALSE), 2)
      [] op = \h59 -> Cyc(EOR(absoluteY(m)), 4)
      [] op = \h5A -> PushReg(m, "Y", INDEX_8BIT)
      [] op = \h5B -> TCD(m)
      [] op = \h5C -> JML(m)
      [] op = \h5D -> Cyc(EOR(absoluteX(m)), 4)
      [] op = \h5E -> Cyc(LSR(absoluteX(m)), 7)
      [] op = \h5F -> Cyc(EOR(absoluteLongIndexedX(m)), 5)
      [] op = \h60 -> RTS(m)
      [] op = \h61 -> Cyc(ADC(directPageIndexedIndirectX(m)), 6)
      [] op = \h62 -> PER(m)
      [] op = \h63 -> Cyc(ADC(stackRelative(m)), 4)
      [] op = \h64 -> Cyc(STZ(directPage(m)), 3)
      [] op = \h65 -> Cyc(ADC(directPage(m)), 3)
      [] op = \h66 -> Cyc(ROR(directPage(m)), 5)
      [] op = \h67 -> Cyc(ADC(directPageIndirectLong(m)), 6)
      [] op = \h68 -> PLA(m)
      [] op = \h69 -> Cyc(ADC(immediate(m)), 2)
      [] op = \h6A -> ShiftA(m, And(m.A, \h01) # 0, Or(Shr(m.A, 1), IF getFlag(m, CARRY) THEN SignM(m) ELSE 0))
      [] op = \h6B -> RTL(m)
      [] op = \h6C -> JMPIndirect(m)
      [] op = \h6D -> Cyc(ADC(absolute(m)), 4)
      [] op = \h6E -> Cyc(ROR(absolute(m)), 6)
      [] op = \h6F -> Cyc(ADC(absoluteLong(m)), 5)
      [] op = \h70 -> Branch(m, getFlag(m, OVERFLOW))
      [] op = \h71 -> Cyc(ADC(directPageIndirectIndexedY(m)), 5)
      [] op = \h72 -> Cyc(ADC(directPageIndirect(m)), 5)
      [] op = \h73 -> Cyc(ADC(stackRelativeIndirectIndexedY(m)), 7)
      [] op = \h74 -> Cyc(STZ(directPageX(m)), 4)
      [] op = \h75 -> Cyc(ADC(directPageX(m)), 4)
      [] op = \h76 -> Cyc(ROR(directPageX(m)), 6)
      [] op = \h77 -> Cyc(ADC(directPageIndirectLongIndexedY(m)), 6)
      [] op = \h78 -> Cyc(setFlag(m, IRQ_DISABLE, TRUE), 2)
      [] op = \h79 -> Cyc(ADC(absoluteY(m)), 4)
      [] op = \h7A -> PullIndex(m, "Y")
      [] op = \h7B -> ToAccumulator(m, "D")
      [] op = \h7C -> JMPIndexedIndirect(m)
      [] op = \h7D -> Cyc(ADC(absoluteX(m)), 4)
      [] op = \h7E -> Cyc(ROR(absoluteX(m)), 7)
      [] op = \h7F -> Cyc(ADC(absoluteLongIndexedX(m)), 5)
      [] op = \h80 -> Branch(m, TRUE)
      [] op = \h81 -> Cyc(STA(directPageIndexedIndirectX(m)), 6)
      [] op = \h82 -> BRL(m)
      [] op = \h83 -> Cyc(STA(stackRelative(m)), 4)
      [] op = \h84 -> Cyc(STY(directPage(m)), 3)
      [] op = \h85 -> Cyc(STA(zeroPage(m)), 3)
      [] op = \h86 -> Cyc(STX(directPage(m)), 3)
      [] op = \h87 -> Cyc(STA(directPageIndirectLong(m)), 6)
      [] op = \h88 -> IncDecReg(m, "Y", -1, INDEX_8BIT)
      [] op = \h89 -> BITImmediate(m)
      [] op = \h8A -> Transfer(m, "A", "X", MEMORY_8BIT)
      [] op = \h8B -> Cyc(push8(m, m.DBR), 3)
      [] op = \h8C -> Cyc(STY(absolute(m)), 4)
      [] op = \h8D -> Cyc(STA(absolute(m)), 4)
      [] op = \h8E -> Cyc(STX(absolute(m)), 4)
      [] op = \h8F -> Cyc(STA(absoluteLong(m)), 5)
      [] op = \h90 -> Branch(m, ~getFlag(m, CARRY))
      [] op = \h91 -> Cyc(STA(directPageIndirectIndexedY(m)), 6)
      [] op = \h92 -> Cyc(STA(directPageIndirect(m)), 5)
      [] op = \h93 -> Cyc(STA(stackRelativeIndirectIndexedY(m)), 7)
      [] op = \h94 -> Cyc(STY(directPageX(m)), 4)
      [] op = \h95 -> Cyc(STA(zeroPageX(m)), 4)
      [] op = \h96 -> Throw(m)   \* this.STX(this.directPageY()): directPageY is undefined
      [] op = \h97 -> Cyc(STA(directPageIndirectLongIndexedY(m)), 6)
      [] op = \h98 -> Transfer(m, "A", "Y", MEMORY_8BIT)
      [] op = \h99 -> Cyc(STA(absoluteY(m)), 5)
      [] op = \h9A -> ToStack(m, "X")
      [] op = \h9B -> Transfer(m, "Y", "X", INDEX_8BIT)
      [] op = \h9C -> Cyc(STZ(absolute(m)), 4)
      [] op = \h9D -> Cyc(STA(absoluteX(m)), 5)
      [] op = \h9E -> Cyc(STZ(absoluteX(m)), 5)
      [] op = \h9F -> Cyc(STA(absoluteLongIndexedX(m)), 5)
      [] op = \hA0 -> Cyc(LDY(immediate(m)), 2)
      [] op = \hA1 -> Cyc(LDA(directPageIndexedIndirectX(m)), 6)
      [] op = \hA2 -> Cyc(LDX(immediate(m)), 2)
      [] op = \hA3 -> Cyc(LDA(stackRelative(m)), 4)
      [] op = \hA4 -> Cyc(LDY(zeroPage(m)), 3)
      [] op = \hA5 -> Cyc(LDA(zeroPage(m)), 3)
      [] op = \hA6 -> Cyc(LDX(zeroPage(m)), 3)
      [] op = \hA7 -> Cyc(LDA(directPageIndirectLong(m)), 6)
      [] op = \hA8 -> Transfer(m, "Y", "A", INDEX_8BIT)
      [] op = \hA9 -> Cyc(LDA(immediate(m)), 2)
      [] op = \hAA -> Transfer(m, "X", "A", INDEX_8BIT)
      [] op = \hAB -> PLB(m)
      [] op = \hAC -> Cyc(LDY(absolute(m)), 4)
      [] op = \hAD -> Cyc(LDA(absolute(m)), 4)
      [] op = \hAE -> Cyc(LDX(absolute(m)), 4)
      [] op = \hAF -> Cyc(LDA(absoluteLong(m)), 5)
      [] op = \hB0 -> Branch(m, getFlag(m, CARRY))
      [] op = \hB1 -> Cyc(LDA(directPageIndirectIndexedY(m)), 5)
      [] op = \hB2 -> Cyc(LDA(directPageIndirect(m)), 5)
      [] op = \hB3 -> Cyc(LDA(stackRelativeIndirectIndexedY(m)), 7)
      [] op = \hB4 -> Cyc(LDY(zeroPageX(m)), 4)
      [] op = \hB5 -> Cyc(LDA(zeroPageX(m)), 4)
      [] op = \hB6 -> Cyc(LDX(zeroPageY(m)), 4)
      [] op = \hB7 -> Cyc(LDA(directPageIndirectLongIndexedY(m)), 6)
      [] op = \hB8 -> Cyc(setFlag(m, OVERFLOW, FALSE), 2)
      [] op = \hB9 -> Cyc(LDA(absoluteY(m)), 4)
      [] op = \hBA -> Transfer(m, "X", "S", INDEX_8BIT)
      [] op = \hBB -> Transfer(m, "X", "Y", INDEX_8BIT)
      [] op = \hBC -> Cyc(LDY(absoluteX(m)), 4)
      [] op = \hBD -> Cyc(LDA(absoluteX(m)), 4)
      [] op = \hBE -> Cyc(LDX(absoluteY(m)), 4)
      [] op = \hBF -> Cyc(LDA(absoluteLongIndexedX(m)), 5)
      [] op = \hC0 -> Cyc(CPY(immediate(m)), 2)
      [] op = \hC1 -> Cyc(CMP(directPageIndexedIndirectX(m)), 6)
      [] op = \hC2 -> REP(m)
      [] op = \hC3 -> Cyc(CMP(stackRelative(m)), 4)
      [] op = \hC4 -> Cyc(CPY(directPage(m)), 3)
      [] op = \hC5 -> Cyc(CMP(directPage(m)), 3)
      [] op = \hC6 -> Cyc(DEC(directPage(m)), 5)
      [] op = \hC7 -> Cyc(CMP(directPageIndirectLong(m)), 6)
      [] op = \hC8 -> IncDecReg(m, "Y", 1, INDEX_8BIT)
      [] op = \hC9 -> Cyc(CMP(immediate(m)), 2)
      [] op = \hCA -> IncDecReg(m, "X", -1, INDEX_8BIT)
      [] op = \hCB -> Cyc(m, 3)
      [] op = \hCC -> Cyc(CPY(absolute(m)), 4)
      [] op = \hCD -> Cyc(CMP(absolute(m)), 4)
      [] op = \hCE -> Cyc(DEC(absolute(m)), 6)
      [] op = \hCF -> Cyc(CMP(absoluteLong(m)), 5)
      [] op = \hD0 -> Branch(m, ~getFlag(m, ZERO))
      [] op = \hD1 -> Cyc(CMP(directPageIndirectIndexedY(m)), 5)
      [] op = \hD2 -> Cyc(CMP(directPageIndirect(m)), 5)
      [] op = \hD3 -> Cyc(CMP(stackRelativeIndirectIndexedY(m)), 7)
      [] op = \hD4 -> PEI(m)
      [] op = \hD5 -> Cyc(CMP(directPageX(m)), 4)
      [] op = \hD6 -> Cyc(DEC(directPageX(m)), 6)
      [] op = \hD7 -> Cyc(CMP(directPageIndirectLongIndexedY(m)), 6)
      [] op = \hD8 -> Cyc(setFlag(m, DECIMAL, FALSE), 2)
      [] op = \hD9 -> Cyc(CMP(absoluteY(m)), 4)
      [] op = \hDA -> PushReg(m, "X", INDEX_8BIT)
      [] op = \hDB -> Cyc(m, 3)
      [] op = \hDC -> JMLIndirect(m)
      [] op = \hDD -> Cyc(CMP8(absoluteX(m)), 4)
      [] op = \hDE -> Cyc(DEC(absoluteX(m)), 7)
      [] op = \hDF -> Cyc(CMP(absoluteLongIndexedX(m)), 5)
      [] op = \hE0 -> Cyc(CPX(immediate(m)), 2)
      [] op = \hE1 -> Cyc(SBC(directPageIndexedIndirectX(m)), 6)
      [] op = \hE2 -> SEP(m)
      [] op = \hE3 -> Cyc(SBC(stackRelative(m)), 4)
      [] op = \hE4 -> Cyc(CPX(directPage(m)), 3)
      [] op = \hE5 -> Cyc(SBC(directPage(m)), 3)
      [] op = \hE6 -> Cyc(INC(directPage(m)), 5)
      [] op = \hE7 -> Cyc(SBC(directPageIndirectLong(m)), 6)
      [] op = \hE8 -> IncDecReg(m, "X", 1, INDEX_8BIT)
      [] op = \hE9 -> Cyc(SBC(immediate(m)), 2)
      [] op = \hEA -> Cyc(m, 2)
      [] op = \hEB -> XBA(m)
      [] op = \hEC -> Cyc(CPX(absolute(m)), 4)
      [] op = \hED -> Cyc(SBC(absolute(m)), 4)
      [] op = \hEE -> Cyc(INC(absolute(m)), 6)
      [] op = \hEF -> Cyc(SBC(absoluteLong(m)), 5)
      [] op = \hF0 -> Branch(m, getFlag(m, ZERO))
      [] op = \hF1 -> Cyc(SBC(directPageIndirectIndexedY(m)), 5)
      [] op = \hF2 -> Cyc(SBC(directPageIndirect(m)), 5)
      [] op = \hF3 -> Cyc(SBC(stackRelativeIndirectIndexedY(m)), 7)
      [] op = \hF4 -> PEA(m)
      [] op = \hF5 -> Cyc(SBC(directPageX(m)), 4)
      [] op = \hF6 -> Cyc(INC(directPageX(m)), 6)
      [] op = \hF7 -> Cyc(SBC(directPageIndirectLongIndexedY(m)), 6)
      [] op = \hF8 -> Cyc(setFlag(m, DECIMAL, TRUE), 2)
      [] op = \hF9 -> Cyc(SBC(absoluteY(m)), 4)
      [] op = \hFA -> PullIndex(m, "X")
      [] op = \hFB -> XCE(m)
      [] op = \hFC -> JSRIndexed(m)
      [] op = \hFD -> Cyc(SBC(absoluteX(m)), 4)
      [] op = \hFE -> Cyc(INC(absoluteX(m)), 7)
      [] op = \hFF -> Cyc(SBC(absoluteLongIndexedX(m)), 5)

\* CPU.executeOpcode(opcode): every index 0x00..0xFF of the table holds a handler.
executeOpcode(m, opcode) ==
    IF opcode \in 0..\hFF
    THEN Handler(opcode, m)
    ELSE Cyc(m, 2)

\* A variant of step that looks at the IRQ line before the NMI line.
stepIRQFirst(m) ==
    IF m.irqPending /\ ~getFlag(m, IRQ_DISABLE)
    THEN [handleIRQ(m) EXCEPT !.did = "irq"]
    ELSE IF m.nmiPending
    THEN [handleNMI(m) EXCEPT !.nmiPending = FALSE, !.did = "nmi"]
    ELSE With([opcode \in {read8(m, m.PC)} |->
             executeOpcode([IncPC(opcode.m, 1) EXCEPT !.did = "op", !.opcode = opcode.v],
                           opcode.v) ])

\* A variant of step that acknowledges the IRQ it services.
stepAcknowledgingIRQ(m) ==
    IF m.nmiPending
    THEN [handleNMI(m) EXCEPT !.nmiPending = FALSE, !.did = "nmi"]
    ELSE IF m.irqPending /\ ~getFlag(m, IRQ_DISABLE)
    THEN [handleIRQ(m) EXCEPT !.irqPending = FALSE, !.did = "irq"]
    ELSE With([opcode \in {read8(m, m.PC)} |->
             executeOpcode([IncPC(opcode.m, 1) EXCEPT !.did = "op", !.opcode = opcode.v],
                           opcode.v) ])

\* CPU.step(); did/opcode record which branch ran and what was fetched.
step(m) ==
    IF m.nmiPending
    THEN [handleNMI(m) EXCEPT !.nmiPending = FALSE, !.did = "nmi"]
    ELSE IF m.irqPending /\ ~getFlag(m, IRQ_DISABLE)
    THEN [handleIRQ(m) EXCEPT !.did = "irq"]
    ELSE With([opcode \in {read8(m, m.PC)} |->
             executeOpcode([IncPC(opcode.m, 1) EXCEPT !.did = "op", !.opcode = opcode.v],
                           opcode.v) ])

\* A variant of reset that leaves the cycle counter and the request lines alone.
resetKeepingCounters(m) ==
    With([resetVector \in
            {MemRead16([m EXCEPT !.A = 0, !.X = 0, !.Y = 0, !.S = \h01FF, !.D = 0,
                                 !.PC = 0, !.PBR = 0, !.DBR = 0, !.P = \h34,
                                 !.emulationMode = TRUE], \hFFFC)} |->
        IF resetVector.v = \h0000 \/ resetVector.v = \hFFFF
        THEN [resetVector.m EXCEPT !.PC = \h8000]
        ELSE [resetVector.m EXCEPT !.PC = resetVector.v] ])

\* A variant of reset that trusts whatever the reset vector holds.
resetTrustingVector(m) ==
    With([resetVector \in
            {MemRead16([m EXCEPT !.A = 0, !.X = 0, !.Y = 0, !.S = \h01FF, !.D = 0,
                                 !.PC = 0, !.PBR = 0, !.DBR = 0, !.P = \h34,
                                 !.emulationMode = TRUE, !.cycles = 0,
                                 !.nmiPending = FALSE, !.irqPending = FALSE], \hFFFC)} |->
        [resetVector.m EXCEPT !.PC = resetVector.v] ])

\* CPU.reset()
reset(m) ==
    With([resetVector \in
            {MemRead16([m EXCEPT !.A = 0, !.X = 0, !.Y = 0, !.S = \h01FF, !.D = 0,
                                 !.PC = 0, !.PBR = 0, !.DBR = 0, !.P = \h34,
                                 !.emulationMode = TRUE, !.cycles = 0,
                                 !.nmiPending = FALSE, !.irqPending = FALSE], \hFFFC)} |->
        IF resetVector.v = \h0000 \/ resetVector.v = \hFFFF
        THEN [resetVector.m EXCEPT !.PC = \h8000]
        ELSE [resetVector.m EXCEPT !.PC = resetVector.v] ])

\* Memory.validateHeader(offset) on ROM image r
RomByte(r, i) == Cell(r.bytes, i)

validateHeader(r, offset) ==
    IF offset + \h30 > r.length THEN 0
    ELSE LET makerCode == RomByte(r, offset + \h10)
             Printable(c) == c >= \h20 /\ c <= \h7E
             romSize == RomByte(r, offset + \h17)
             checksum == Or(Shl(RomByte(r, offset + \h1F), 8), RomByte(r, offset + \h1E))
             complement == Or(Shl(RomByte(r, offset + \h1D), 8), RomByte(r, offset + \h1C))
         IN  (IF Printable(makerCode) THEN 1 ELSE 0)
             + Cardinality({i \in 0..3 : Printable(RomByte(r, offset + \h12 + i))})
             + (IF romSize >= \h08 /\ romSize <= \h0D THEN 2 ELSE 0)
             + (IF Xor(checksum, complement) = \hFFFF THEN 4 ELSE 0)

\* A variant of detectMapper that gives HiROM the ties.
detectMapperTiesToHiROM(r) ==
    IF ~r.loaded \/ r.length < \h8000 THEN "lorom"
    ELSE LET headerOffset == IF r.length % 1024 = 512 THEN 512 ELSE 0
             loromScore == validateHeader(r, \h7FC0 + headerOffset)
             hiromScore == validateHeader(r, \hFFC0 + headerOffset)
         IN  IF hiromScore >= loromScore THEN "hirom" ELSE "lorom"

\* Memory.detectMapper()
detectMapper(r) ==
    IF ~r.loaded \/ r.length < \h8000 THEN "lorom"
    ELSE LET headerOffset == IF r.length % 1024 = 512 THEN 512 ELSE 0
             loromScore == validateHeader(r, \h7FC0 + headerOffset)
             hiromScore == validateHeader(r, \hFFC0 + headerOffset)
         IN  IF hiromScore > loromScore THEN "hirom" ELSE "lorom"

(***************************************************************************)
(* Cartridges, construction and the calls made on the CPU                  *)
(***************************************************************************)
MaxCycles == 27       \* step() is called while fewer cycles than this have run
MaxResets == 1        \* number of reset() calls after construction
MaxRaises == 2        \* number of interrupt requests made
RomLength == 32768   \* size of the cartridge image (one LoROM bank)

\* Interrupt vectors of the cartridges and the ROM offsets they map to
\* under LoROM (bus 0x8000+n is ROM offset n for bank 0).
VectorBytes ==
    (\h7FFB :> \h90) @@               \* $FFFA/B  NMI, emulation   -> $9000
    (\h7FEB :> \hA0) @@               \* $FFEA/B  NMI, native      -> $A000
    (\h7FFF :> \h91) @@               \* $FFFE/F  IRQ/BRK, emul.   -> $9100
    (\h7FEF :> \hA1) @@               \* $FFEE/F  IRQ, native      -> $A100
    (\h1000 :> \h40) @@ (\h1100 :> \h40) @@   \* each handler is a single RTI
    (\h2000 :> \h40) @@ (\h2100 :> \h40)

\* The bytes of seq at ROM offset base, zero bytes left implicit.
ProgBytesAt(base, seq) ==
    [i \in {base + j - 1 : j \in {k \in DOMAIN seq : seq[k] # 0}} |-> seq[i - base + 1]]

\* The bytes of prog at ROM offset 0 (bus $00:8000), zero bytes left implicit.
ProgBytes(prog) == ProgBytesAt(0, prog)

\* A cartridge image: program at $8000, reset vector resetBytes at $FFFC/D.
Image(prog, resetBytes) ==
    [loaded |-> TRUE, length |-> RomLength,
     bytes |-> ProgBytes(prog) @@ ProgBytesAt(\h7FFC, resetBytes) @@ VectorBytes]

\* Mode-setting prefixes: stay in emulation mode; CLC XCE (native mode, 8-bit
\* registers); CLC XCE REP #$30 (native mode, 16-bit registers).
Prefixes == { <<>>, <<\h18, \hFB>>, <<\h18, \hFB, \hC2, \h30>> }

\* Operand bytes following the opcode under test.
OperandTail == <<\h10, \h00, \h7E>>

\* Hand-written programs.
Scenarios == {
    \* CLC XCE REP #$30 LDX #$1234 TXS SEC XCE
    <<\h18, \hFB, \hC2, \h30, \hA2, \h34, \h12, \h9A, \h38, \hFB>>,
    \* JML $01:8010
    <<\h5C, \h10, \h80, \h01>>,
    \* LDA #$7F PHA PLB LDA $0010
    <<\hA9, \h7F, \h48, \hAB, \hAD, \h10, \h00>>,
    \* LDA #$7F PHA PLB STA $0010
    <<\hA9, \h7F, \h48, \hAB, \h8D, \h10, \h00>> }

\* Programs run with the interrupt lines driven: CLI; CLC XCE CLI; NOP.
InterruptPrograms == { <<\h58>>, <<\h18, \hFB, \h58>>, <<\hEA>> }

\* Prefixes that leave the two width flags different, A = $1234, X = $56FF:
\* CLC XCE REP #$30 LDA #$1234 LDX #$56FF, then SEP #$20 (8-bit accumulator,
\* 16-bit index) or SEP #$10 (16-bit accumulator, 8-bit index).
MixedPrefixes ==
    { <<\h18, \hFB, \hC2, \h30, \hA9, \h34, \h12, \hA2, \hFF, \h56, \hE2, flag>> :
        flag \in {\h20, \h10} }

\* Operand bytes following the opcode under test after a mixed prefix.
MixedOperandTail == <<\h00, \h01, \h00>>

\* The operand values of the arithmetic programs, as bytes and as words.
ArithBytes == {\h00, \h01, \h7F, \h80, \hFF}
ArithWords == {\h0000, \h7FFF, \h8000, \hFFFF}

\* Opcodes by direct-page addressing mode, as the dispatch table assigns them.
DirectOpcodes ==
    {\h04, \h05, \h06, \h14, \h24, \h25, \h26, \h45, \h46, \h64, \h65, \h66,
     \h84, \h85, \h86, \hA4, \hA5, \hA6, \hC4, \hC5, \hC6, \hE4, \hE5, \hE6}
DirectXOpcodes ==
    {\h15, \h16, \h34, \h35, \h36, \h55, \h56, \h74, \h75, \h76, \h94, \h95,
     \hB4, \hB5, \hD5, \hD6, \hF5, \hF6}
DirectYOpcodes == {\hB6}
DirectIndirectOpcodes ==
    {\h12, \h32, \h52, \h72, \h92, \hB2, \hD2, \hF2,
     \h11, \h31, \h51, \h71, \h91, \hB1, \hD1, \hF1,
     \h07, \h27, \h47, \h67, \h87, \hA7, \hC7, \hE7,
     \h17, \h37, \h57, \h77, \h97, \hB7, \hD7, \hF7}
DirectXIndirectOpcodes == {\h01, \h21, \h41, \h61, \h81, \hA1, \hC1, \hE1}
DirectPageOpcodes ==
    DirectOpcodes \cup DirectXOpcodes \cup DirectYOpcodes
        \cup DirectIndirectOpcodes \cup DirectXIndirectOpcodes

\* Programs that move the direct page before a direct-page opcode:
\* LDA #$FF TCD LDX #$05 LDY #$03 op $10 (D = $00FF, emulation mode), and
\* CLC XCE REP #$30 LDA #$FFF0 TCD LDX #$0005 op $20 (D = $FFF0, native).
DirectPagePrograms ==
    { <<\hA9, \hFF, \h5B, \hA2, \h05, \hA0, \h03, op, \h10>> :
        op \in DirectPageOpcodes }
    \cup { <<\h18, \hFB, \hC2, \h30, \hA9, \hF0, \hFF, \h5B, \hA2, \h05, \h00,
             op, \h20>> : op \in DirectPageOpcodes }

\* The immediate operands of the transfer programs.
TransferWords == {\h0000, \h1234, \h8000}

\* REP #$30 LDA #imm16 TAX BRK at the entry point.
TransferPrograms ==
    { <<\hC2, \h30, \hA9, imm16 % 256, imm16 \div 256, \hAA, \h00>> :
        imm16 \in TransferWords }

\* (CLC | SEC) LDA #a (ADC | SBC) #b in emulation mode, and
\* CLC XCE REP #$30 (CLC | SEC) LDA #a (ADC | SBC) #b with 16-bit operands.
ArithPrograms ==
    { <<setCarry, \hA9, a, op, b>> :
        setCarry \in {\h18, \h38}, a \in ArithBytes, op \in {\h69, \hE9}, b \in ArithBytes }
    \cup
    { <<\h18, \hFB, \hC2, \h30, setCarry, \hA9, a % 256, a \div 256,
        op, b % 256, b \div 256>> :
        setCarry \in {\h18, \h38}, a \in ArithWords, op \in {\h69, \hE9}, b \in ArithWords }

\* JSL to an RTL two bytes after the JSL, in bank 0 and in bank 1, at the
\* entry point in emulation mode and after CLC XCE in native mode.
LongCallPrograms ==
    { <<\h22, \h06, \h80, bank, \hEA, \hEA, \h6B>> : bank \in {\h00, \h01} }
    \cup { <<\h18, \hFB, \h22, \h08, \h80, \h00, \hEA, \hEA, \h6B>> }

\* One program per opcode and prefix, and the hand-written ones.
Programs ==
    {p \o <<op>> \o OperandTail : p \in Prefixes, op \in 0..\hFF}
    \cup {p \o <<op>> \o MixedOperandTail : p \in MixedPrefixes, op \in 0..\hFF}
    \cup ArithPrograms \cup DirectPagePrograms \cup TransferPrograms \cup LongCallPrograms
    \cup Scenarios \cup InterruptPrograms

\* Reset vectors other than $8000 given to a NOP cartridge: all-zero, a
\* vector past the NOP, and the two words with one byte 0x00 and one 0xFF.
ResetVectors == { <<\h00, \h00>>, <<\h02, \h80>>, <<\hFF, \h00>>, <<\h00, \hFF>> }

Images ==
    {Image(prog, <<\h00, \h80>>) : prog \in Programs}
    \cup {Image(<<\hEA>>, resetBytes) : resetBytes \in ResetVectors}
    \cup {Image(prog, <<\h00, \h00>>) : prog \in TransferPrograms}
    \cup {NoROM}

\* The cartridges during whose run interrupt requests are made.
WiredImages == {Image(prog, <<\h00, \h80>>) : prog \in InterruptPrograms}

\* The registers of the CPU object.
Regs ==
    [A |-> A, X |-> X, Y |-> Y, S |-> S, D |-> D, PC |-> PC, PBR |-> PBR, DBR |-> DBR,
     P |-> P, emulationMode |-> emulationMode, cycles |-> cycles,
     nmiPending |-> nmiPending, irqPending |-> irqPending]

\* The CPU object together with the mutable part of its Memory.
Machine ==
    [A |-> A, X |-> X, Y |-> Y, S |-> S, D |-> D, PC |-> PC, PBR |-> PBR, DBR |-> DBR,
     P |-> P, emulationMode |-> emulationMode, cycles |-> cycles,
     nmiPending |-> nmiPending, irqPending |-> irqPending,
     wram |-> wram, sram |-> sram, rom |-> rom, mapperType |-> mapperType,
     mapper |-> boundMapper, ioHandlers |-> ioHandlers, ioLog |-> ioLog,
     busLog |-> <<>>, charged |-> 0, threw |-> FALSE, did |-> "none", opcode |-> -1]

\* new Memory(): zero-filled RAM; new CPU(memory): fields as reset() leaves them.
Fresh ==
    [A |-> 0, X |-> 0, Y |-> 0, S |-> 0, D |-> 0, PC |-> 0, PBR |-> 0, DBR |-> 0,
     P |-> 0, emulationMode |-> FALSE, cycles |-> 0,
     nmiPending |-> FALSE, irqPending |-> FALSE,
     wram |-> <<>>, sram |-> <<>>, rom |-> NoROM, mapperType |-> "lorom",
     mapper |-> "lorom", ioHandlers |-> <<>>, ioLog |-> <<>>,
     busLog |-> <<>>, charged |-> 0, threw |-> FALSE, did |-> "none", opcode |-> -1]

RegsOf(m) ==
    [A |-> m.A, X |-> m.X, Y |-> m.Y, S |-> m.S, D |-> m.D, PC |-> m.PC, PBR |-> m.PBR,
     DBR |-> m.DBR, P |-> m.P, emulationMode |-> m.emulationMode, cycles |-> m.cycles,
     nmiPending |-> m.nmiPending, irqPending |-> m.irqPending]

\* Memory.setupMapper()
setupMapper(m) == [m EXCEPT !.mapper = IF m.mapperType = "lorom" THEN "lorom" ELSE "hirom"]

\* A variant of loadROM that leaves the mapping function bound as it was.
loadROMKeepingMapper(m, romData) ==
    [m EXCEPT !.rom = romData, !.mapperType = detectMapper(romData)]

\* Memory.loadROM(romData)
loadROM(m, romData) ==
    setupMapper([m EXCEPT !.rom = romData, !.mapperType = detectMapper(romData)])

\* memory = new Memory(), then memory.loadROM(image) unless there is no cartridge.
Loaded(image) == IF image = NoROM THEN Fresh ELSE loadROM(Fresh, image)

\* The Emulator and PPU fields the frame driver uses, as new Emulator()
\* leaves them.
NewEmulator ==
    [masterClock |-> 0, nmiEnabled |-> FALSE, nmiFlag |-> FALSE,
     scanline |-> 0, inVBlank |-> FALSE]

\* No runFrame() call in progress.
Idle ==
    [active |-> FALSE, cycles |-> 0, iterations |-> 0, nextScanlineCycles |-> 0,
     wasInVBlank |-> FALSE]

\* The state after a call: the CPU and Memory fields from m, the call record l.
CommitState(m, l, before) ==
    /\ A' = m.A /\ X' = m.X /\ Y' = m.Y /\ S' = m.S /\ D' = m.D
    /\ PC' = m.PC /\ PBR' = m.PBR /\ DBR' = m.DBR /\ P' = m.P
    /\ emulationMode' = m.emulationMode /\ cycles' = m.cycles
    /\ nmiPending' = m.nmiPending /\ irqPending' = m.irqPending
    /\ wram' = m.wram /\ sram' = m.sram /\ ioLog' = m.ioLog
    /\ busLog' = m.busLog
    /\ last' = l
    /\ pre' = before
    /\ rom' = m.rom /\ mapperType' = m.mapperType /\ boundMapper' = m.mapper
    /\ ioHandlers' = m.ioHandlers

\* The state after a call on the CPU object.
Commit(m, l, before) == CommitState(m, l, before) /\ UNCHANGED <<calls, frameVars>>

NoCall(call) ==
    [call |-> call, did |-> "none", opcode |-> -1, threw |-> FALSE, ret |-> 0,
     charged |-> 0, prev |-> [did |-> "none", opcode |-> -1, pre |-> pre]]

\* The fields of the CPU and of its Memory as the constructors leave them.
ConstructedFields(m) ==
    /\ A = m.A /\ X = m.X /\ Y = m.Y /\ S = m.S /\ D = m.D
    /\ PC = m.PC /\ PBR = m.PBR /\ DBR = m.DBR /\ P = m.P
    /\ emulationMode = m.emulationMode /\ cycles = m.cycles
    /\ nmiPending = m.nmiPending /\ irqPending = m.irqPending
    /\ wram = m.wram /\ sram = m.sram /\ ioLog = m.ioLog
    /\ busLog = m.busLog
    /\ pre = RegsOf(m)
    /\ rom = m.rom /\ mapperType = m.mapperType /\ boundMapper = m.mapper
    /\ ioHandlers = m.ioHandlers
    /\ resets = 0 /\ raises = 0 /\ elapsed = 0 /\ calls = 0
    /\ emulator = NewEmulator /\ activation = Idle

\* The state after construction, no call made yet.
Constructed(m) == ConstructedFields(m) /\ last = NoCall("new")

\* memory = new Memory(); memory.loadROM(image); cpu = new CPU(memory)
Init ==
    \E image \in Images :
        \E m \in {reset(Loaded(image))} : Constructed(m)

\* cpu.step()
Step ==
    /\ elapsed < MaxCycles
    /\ \E m \in {step(Machine)} :
           /\ Commit(m, [call |-> "step", did |-> m.did, opcode |-> m.opcode,
                         threw |-> m.threw,
                         ret |-> IF m.threw THEN 0 ELSE m.cycles - cycles,
                         charged |-> m.charged,
                         prev |-> [did |-> last.did, opcode |-> last.opcode,
                                   pre |-> pre]], Regs)
           /\ elapsed' = elapsed + (m.cycles - cycles)
    /\ UNCHANGED <<resets, raises>>

\* cpu.reset()
Reset ==
    /\ resets < MaxResets
    /\ resets' = resets + 1
    /\ \E m \in {reset(Machine)} : Commit(m, NoCall("reset"), Regs)
    /\ UNCHANGED <<raises, elapsed>>

\* cpu.nmiPending = true (Emulator.runFrame on entering VBlank with NMI enabled)
RaiseNMI ==
    /\ rom \in WiredImages
    /\ raises < MaxRaises
    /\ raises' = raises + 1
    /\ LET m == [Machine EXCEPT !.nmiPending = TRUE]
       IN  Commit(m, NoCall("raise"), RegsOf(m))
    /\ UNCHANGED <<resets, elapsed>>

\* cpu.irqPending = true (set by the owner of the CPU object)
RaiseIRQ ==
    /\ rom \in WiredImages
    /\ raises < MaxRaises
    /\ raises' = raises + 1
    /\ LET m == [Machine EXCEPT !.irqPending = TRUE]
       IN  Commit(m, NoCall("raise"), RegsOf(m))
    /\ UNCHANGED <<resets, elapsed>>

Next == Step \/ Reset \/ RaiseNMI \/ RaiseIRQ

Spec == Init /\ [][Next]_vars

(***************************************************************************)
(* The CPU of src/core/cpu/cpu.js: the same methods, a dispatch table with *)
(* 57 entries, and a reset() that takes the reset vector as it is.         *)
(***************************************************************************)
\* The indices at which buildOpcodeTable() of cpu.js stores a handler.
CoreOpcodes ==
    {\h00, \h01, \h02, \h03, \h0E, \h18, \h20, \h22, \h24, \h30, \h34, \h38,
     \h40, \h48, \h4C, \h58, \h5B, \h60, \h68, \h6C, \h78, \h80, \h85, \h8A,
     \h8D, \h95, \h98, \h99, \h9A, \h9D, \hA0, \hA2, \hA4, \hA5, \hA6, \hA8,
     \hA9, \hAA, \hAB, \hAC, \hAD, \hAE, \hB4, \hB5, \hB6, \hB8, \hB9, \hBC,
     \hBD, \hBE, \hC2, \hD8, \hDD, \hE2, \hEA, \hF8, \hFB}

\* A variant of executeOpcode that raises an error for a missing handler.
executeOpcodeCoreStrict(m, opcode) ==
    IF opcode \in CoreOpcodes
    THEN Handler(opcode, m)
    ELSE Throw(m)

\* CPU.executeOpcode(opcode) over the table of cpu.js
executeOpcodeCore(m, opcode) ==
    IF opcode \in CoreOpcodes
    THEN Handler(opcode, m)
    ELSE Cyc(m, 2)

\* CPU.step() of cpu.js
stepCore(m) ==
    IF m.nmiPending
    THEN [handleNMI(m) EXCEPT !.nmiPending = FALSE, !.did = "nmi"]
    ELSE IF m.irqPending /\ ~getFlag(m, IRQ_DISABLE)
    THEN [handleIRQ(m) EXCEPT !.did = "irq"]
    ELSE With([opcode \in {read8(m, m.PC)} |->
             executeOpcodeCore([IncPC(opcode.m, 1) EXCEPT !.did = "op", !.opcode = opcode.v],
                               opcode.v) ])

\* CPU.reset() of cpu.js
resetCore(m) ==
    With([resetVector \in
            {MemRead16([m EXCEPT !.A = 0, !.X = 0, !.Y = 0, !.S = \h01FF, !.D = 0,
                                 !.PC = 0, !.PBR = 0, !.DBR = 0, !.P = \h34,
                                 !.emulationMode = TRUE, !.cycles = 0,
                                 !.nmiPending = FALSE, !.irqPending = FALSE], \hFFFC)} |->
        [resetVector.m EXCEPT !.PC = resetVector.v] ])

CoreInit ==
    \E image \in Images :
        \E m \in {resetCore(Loaded(image))} : Constructed(m)

\* cpu.step()
CoreStep ==
    /\ elapsed < MaxCycles
    /\ \E m \in {stepCore(Machine)} :
           /\ Commit(m, [call |-> "step", did |-> m.did, opcode |-> m.opcode,
                         threw |-> m.threw,
                         ret |-> IF m.threw THEN 0 ELSE m.cycles - cycles,
                         charged |-> m.charged,
                         prev |-> [did |-> last.did, opcode |-> last.opcode,
                                   pre |-> pre]], Regs)
           /\ elapsed' = elapsed + (m.cycles - cycles)
    /\ UNCHANGED <<resets, raises>>

\* cpu.reset()
CoreReset ==
    /\ resets < MaxResets
    /\ resets' = resets + 1
    /\ \E m \in {resetCore(Machine)} : Commit(m, NoCall("reset"), Regs)
    /\ UNCHANGED <<raises, elapsed>>

CoreNext == CoreStep \/ CoreReset \/ RaiseNMI \/ RaiseIRQ

CoreSpec == CoreInit /\ [][CoreNext]_vars

(***************************************************************************)
(* The stack methods called directly on the CPU object, as the unit tests  *)
(* do: cpu.S = s; cpu.push8(v); cpu.pop8(); cpu.push16(v); cpu.pop16().    *)
(***************************************************************************)
MaxStackCycles == 4   \* stack calls are made while fewer cycles than this have run

\* Stack pointers the caller sets: page 1, both ends of the address range,
\* the last WRAM mirror byte, the first I/O, SRAM and ROM addresses.
StackPointers ==
    {\h0000, \h0001, \h0100, \h01FF, \h1FFF, \h2000, \h6000, \h8000, \hFFFF}

StackBytes == {\h00, \h42, \hFF}
StackWords == {\h0000, \h1234, \hFF00, \hFFFF}

\* What a stack call was, its argument or result, S before it, and the call
\* before it with that call's argument and S.
StackCall(call, arg, ret) ==
    [call |-> call, arg |-> arg, ret |-> ret, s0 |-> S,
     after |-> last.call,
     afterArg |-> IF last.call \in {"push8", "push16"} THEN last.arg ELSE 0,
     afterS0 |-> IF last.call \in {"push8", "push16"} THEN last.s0 ELSE 0]

StackInit ==
    \E m \in {reset(Loaded(Image(<<\hEA>>, <<\h00, \h80>>)))} : Constructed(m)

\* cpu.S = s, once, on the newly constructed CPU
SetS ==
    /\ last.call = "new"
    /\ \E s \in StackPointers :
           Commit([Machine EXCEPT !.S = s], NoCall("setS"), Regs)
    /\ UNCHANGED <<resets, raises, elapsed>>

\* The state after a stack call that left the machine m.
StackCommit(m, l) ==
    /\ Commit(m, l, Regs)
    /\ elapsed' = elapsed + (m.cycles - cycles)
    /\ UNCHANGED <<resets, raises>>

\* cpu.push8(v)
Push8 ==
    /\ elapsed < MaxStackCycles
    /\ \E v \in StackBytes :
           \E m \in {push8(Machine, v)} : StackCommit(m, StackCall("push8", v, 0))

\* cpu.pop8()
Pop8 ==
    /\ elapsed < MaxStackCycles
    /\ \E r \in {pop8(Machine)} : StackCommit(r.m, StackCall("pop8", 0, r.v))

\* cpu.push16(v)
Push16 ==
    /\ elapsed < MaxStackCycles
    /\ \E v \in StackWords :
           \E m \in {push16(Machine, v)} : StackCommit(m, StackCall("push16", v, 0))

\* cpu.pop16()
Pop16 ==
    /\ elapsed < MaxStackCycles
    /\ \E r \in {pop16(Machine)} : StackCommit(r.m, StackCall("pop16", 0, r.v))

StackNext == SetS \/ Push8 \/ Pop8 \/ Push16 \/ Pop16

StackSpec == StackInit /\ [][StackNext]_vars

(***************************************************************************)
(* The Memory object called directly, as memory.test.js does: loadROM,     *)
(* registerIOHandler, read, read16, write, write16 and dmaTransfer.        *)
(***************************************************************************)
MaxBusCalls == 2      \* calls made on the Memory object after its set-up

\* A variant of registerIOHandler that keeps an earlier callback where the
\* new registration passes none.
registerIOHandlerMerging(m, address, readHandler, writeHandler) ==
    [m EXCEPT !.ioHandlers =
        [a \in DOMAIN @ \cup {address} |->
            IF a # address THEN @[a]
            ELSE IF address \notin DOMAIN @
            THEN [read |-> readHandler, write |-> writeHandler]
            ELSE [read |-> IF readHandler = NoCallback THEN @[a].read ELSE readHandler,
                  write |-> IF writeHandler = NoCallback THEN @[a].write
                            ELSE writeHandler]]]

\* Memory.registerIOHandler(address, readHandler, writeHandler)
registerIOHandler(m, address, readHandler, writeHandler) ==
    [m EXCEPT !.ioHandlers =
        [a \in DOMAIN @ \cup {address} |->
            IF a = address THEN [read |-> readHandler, write |-> writeHandler]
            ELSE @[a]]]

\* The loop of Memory.dmaTransfer from index i on.
RECURSIVE DmaLoop(_, _, _, _, _)
DmaLoop(m, source, dest, i, length) ==
    IF i >= length THEN m
    ELSE With([value \in {MemRead(m, source + i)} |->
             DmaLoop(MemWrite(value.m, dest + i, value.v), source, dest, i + 1, length) ])

\* A variant of dmaTransfer that copies from the second byte on.
dmaTransferFromSecond(m, channel, source, dest, length) ==
    DmaLoop(m, source, dest, 1, length)

\* Memory.dmaTransfer(channel, source, dest, length)
dmaTransfer(m, channel, source, dest, length) == DmaLoop(m, source, dest, 0, length)

\* One header at ROM offset h: the checksum/complement pair (valid as in the
\* unit tests, or all zero) and the other scored bytes: none scoring
\* (level 0), the four game-code bytes (level 4), or also the maker code and
\* the ROM size (level 7).
HeaderBytes(h, pair, level) ==
    (IF pair THEN (h + \h1C :> \hFF) @@ (h + \h1D :> \hFF) ELSE <<>>)
    @@ (IF level >= 4
        THEN (h + \h12 :> \h41) @@ (h + \h13 :> \h41) @@ (h + \h14 :> \h41)
             @@ (h + \h15 :> \h41)
        ELSE <<>>)
    @@ (IF level >= 7 THEN (h + \h10 :> \h41) @@ (h + \h17 :> \h09) ELSE <<>>)

\* How the two headers of a 64 KiB image are filled: pair and level for each.
HeaderShapes ==
    {<<pairA, levelA, pairB, levelB>> :
        pairA \in BOOLEAN, levelA \in {0, 4, 7}, pairB \in BOOLEAN, levelB \in {0, 4, 7}}

\* A 64 KiB image with byte 0x42 at offset 0 and the two headers.
HeaderImage(shape) ==
    [loaded |-> TRUE, length |-> \h10000,
     bytes |-> (0 :> \h42) @@ HeaderBytes(\h7FC0, shape[1], shape[2])
                 @@ HeaderBytes(\hFFC0, shape[3], shape[4])]

\* Images too short for one or both headers, and one behind a 512-byte
\* copier header.
OddImages ==
    { [loaded |-> TRUE, length |-> 0, bytes |-> <<>>],
      [loaded |-> TRUE, length |-> \h100, bytes |-> (0 :> \h42)],
      [loaded |-> TRUE, length |-> \h7FFF, bytes |-> HeaderBytes(\h7FC0, TRUE, 7)],
      [loaded |-> TRUE, length |-> \h8000,
       bytes |-> (0 :> \h42) @@ HeaderBytes(\h7FC0, FALSE, 0)],
      [loaded |-> TRUE, length |-> \hFFEF,
       bytes |-> (0 :> \h42) @@ HeaderBytes(\hFFC0, TRUE, 7)],
      [loaded |-> TRUE, length |-> \h10200,
       bytes |-> (512 :> \h42) @@ HeaderBytes(\hFFC0 + 512, TRUE, 0)] }

\* The images loaded for header detection.
CartImages == {HeaderImage(shape) : shape \in HeaderShapes} \cup OddImages

\* The images behind the bus calls: the LoROM and the HiROM image of the
\* unit tests, an empty one and a truncated one.
BusImages ==
    { HeaderImage(<<TRUE, 7, FALSE, 0>>), HeaderImage(<<FALSE, 0, TRUE, 7>>),
      [loaded |-> TRUE, length |-> 0, bytes |-> <<>>],
      [loaded |-> TRUE, length |-> \h100, bytes |-> (0 :> \h42)] }

\* Addresses of every region under both mappers: WRAM and its mirrors, the
\* I/O window, SRAM, ROM inside and outside the image, and open bus.
BusAddresses ==
    {\h000000, \h001FFF, \h3F0000, \h800000, \hBF1FFF, \h7E0000, \h7E1FFF,
     \h7FFFFF, \hFFFFFF,
     \h002100, \h004210, \h004211, \h004212, \h005FFF, \h802100,
     \h006000, \h700000, \h740000,
     \h008000, \h808000, \h00FFDC, \h3F8000, \h400000, \hC00000, \hC0FFDC}

\* The writes made: 0x99 everywhere, 0x42 to work RAM, and a value wider
\* than a byte to WRAM, SRAM and an I/O register.
BusWrites ==
    {<<address, \h99>> : address \in BusAddresses}
    \cup {<<\h7E0000, \h42>>, <<\h000000, \h42>>}
    \cup {<<\h7E0000, \h1FF>>, <<\h006000, \h1FF>>, <<\h002100, \h1FF>>}

\* Callbacks a caller registers: id names the function, ret is what a read
\* callback returns.
\* The (read, write) callback pairs passed to registerIOHandler.
Callbacks ==
    { <<NoCallback, NoCallback>>,
      <<[id |-> 1, ret |-> \h42], NoCallback>>,
      <<NoCallback, [id |-> 3, ret |-> 0]>>,
      <<[id |-> 1, ret |-> \h42], [id |-> 3, ret |-> 0]>>,
      <<[id |-> 2, ret |-> \h99], [id |-> 4, ret |-> 0]>> }
IOAddresses == {\h2100, \h4210}

\* What a call on the Memory object was: its address, its value argument,
\* what it returned, what a read of the address would have returned before
\* it (for a registration: the entry replaced), the callbacks passed, the
\* callback invocations it caused, and the call made before it.
NoEntry == [read |-> NoCallback, write |-> NoCallback]
BusNew ==
    [call |-> "new", a |-> 0, v |-> 0, ret |-> 0, old |-> 0, entry |-> NoEntry,
     rd |-> NoCallback, wr |-> NoCallback, io |-> <<>>,
     scheme |-> "lorom",
     prev |-> [call |-> "none", a |-> 0, v |-> 0, old |-> 0, entry |-> NoEntry,
               rd |-> NoCallback, wr |-> NoCallback, scheme |-> "lorom"]]

BusCall(m, call, a, v, ret, rd, wr) ==
    [call |-> call, a |-> a, v |-> v, ret |-> ret,
     old |-> MemRead(Machine, a).v,
     entry |-> IF a \in DOMAIN ioHandlers THEN ioHandlers[a] ELSE NoEntry,
     rd |-> rd, wr |-> wr,
     io |-> SubSeq(m.ioLog, Len(ioLog) + 1, Len(m.ioLog)),
     scheme |-> boundMapper,
     prev |-> [call |-> last.call, a |-> last.a, v |-> last.v, old |-> last.old,
               entry |-> last.entry, rd |-> last.rd, wr |-> last.wr,
               scheme |-> last.scheme]]

\* memory = new Memory(), and memory.loadROM(image) where a cartridge is used
BusInit ==
    \E image \in BusImages \cup {NoROM} :
        ConstructedFields(Loaded(image)) /\ last = BusNew

\* The state after a call on the Memory object that left the machine m.
BusCommit(m, l) ==
    /\ calls' = calls + 1
    /\ CommitState(m, l, pre)
    /\ UNCHANGED <<resets, raises, elapsed, frameVars>>

\* memory.loadROM(image)
BusLoadROM ==
    /\ calls < MaxBusCalls
    /\ \E image \in BusImages :
           \E m \in {loadROM(Machine, image)} :
               BusCommit(m, BusCall(m, "loadROM", 0, 0, 0, NoCallback, NoCallback))

\* memory.registerIOHandler(address, readHandler, writeHandler)
BusRegister ==
    /\ calls < MaxBusCalls
    /\ \E address \in IOAddresses, cb \in Callbacks :
           \E m \in {registerIOHandler(Machine, address, cb[1], cb[2])} :
               BusCommit(m, BusCall(m, "registerIOHandler", address, 0, 0, cb[1], cb[2]))

\* memory.read(address)
BusRead ==
    /\ calls < MaxBusCalls
    /\ \E address \in BusAddresses :
           \E r \in {MemRead(Machine, address)} :
               BusCommit(r.m, BusCall(r.m, "read", address, 0, r.v, NoCallback, NoCallback))

\* memory.read16(address)
BusRead16 ==
    /\ calls < MaxBusCalls
    /\ \E address \in {\h7E0000, \h00FFDC, \hFFFFFF} :
           \E r \in {MemRead16(Machine, address)} :
               BusCommit(r.m, BusCall(r.m, "read16", address, 0, r.v, NoCallback, NoCallback))

\* memory.write(address, value)
BusWrite ==
    /\ calls < MaxBusCalls
    /\ \E w \in BusWrites :
           \E m \in {MemWrite(Machine, w[1], w[2])} :
               BusCommit(m, BusCall(m, "write", w[1], w[2], 0, NoCallback, NoCallback))

\* memory.write16(address, value)
BusWrite16 ==
    /\ calls < MaxBusCalls
    /\ \E address \in {\h7E0000, \h001FFF, \h008000, \hFFFFFF} :
           \E m \in {MemWrite16(Machine, address, \h1234)} :
               BusCommit(m, BusCall(m, "write16", address, \h1234, 0, NoCallback, NoCallback))

\* The transfers made: <<source, dest, length>>, between RAM, ROM and the
\* I/O window, of zero to three bytes, one with overlapping ranges.
DmaTransfers ==
    {<<source, dest, 2>> : source \in {\h7E0000, \h008000},
                           dest \in {\h7E1FFF, \h008000, \h00FFDC}}
    \cup { <<\h7E0000, \h7E1FFF, 3>>, <<\h7E0000, \h7E0001, 3>>,
           <<\h7E0000, \h7E1FFF, 0>>, <<\h002100, \h7E0000, 2>>,
           <<\h7E0000, \h0020FF, 2>>, <<\h002100, \h802100, 1>> }

\* memory.dmaTransfer(0, source, dest, length)
BusDmaTransfer ==
    /\ calls < MaxBusCalls
    /\ \E t \in DmaTransfers :
           \E m \in {dmaTransfer(Machine, 0, t[1], t[2], t[3])} :
               BusCommit(m, BusCall(m, "dmaTransfer", t[2], t[1], t[3],
                                    NoCallback, NoCallback))

BusNext ==
    \/ BusLoadROM \/ BusRegister \/ BusRead \/ BusRead16
    \/ BusWrite \/ BusWrite16 \/ BusDmaTransfer

BusSpec == BusInit /\ [][BusNext]_vars

(***************************************************************************)
(* Block moves run to completion, with NMI requests in between             *)
(***************************************************************************)
MaxMoveCycles == 80   \* cycles after which no further step() is made

\* (CLC XCE | NOP NOP) REP #$30 LDA #count LDX #from LDY #to (MVN | MVP)
\* dest, src, NOP: source in ROM bank 0 (the program itself, or the vector
\* area for a pointer that wraps), destination in work RAM.
MoveCounts == {0, 1, 2}
MovePrograms ==
    { <<mode[1], mode[2], \hC2, \h30, \hA9, count, \h00,
        \hA2, move[2] % 256, move[2] \div 256, \hA0, move[3] % 256, move[3] \div 256,
        move[1], \h7E, \h00, \hEA>> :
        mode \in {<<\h18, \hFB>>, <<\hEA, \hEA>>},
        count \in MoveCounts,
        move \in {<<\h54, \h8000, \h0010>>, <<\h44, \h8002, \h0012>>,
                  <<\h54, \hFFFF, \hFFFF>>, <<\h44, \h0000, \h0000>>} }
MoveImages == {Image(prog, <<\h00, \h80>>) : prog \in MovePrograms}

\* memory.loadROM(image); cpu = new CPU(memory)
MoveInit ==
    \E image \in MoveImages :
        \E m \in {reset(Loaded(image))} : Constructed(m)

\* cpu.step()
MoveStep ==
    /\ elapsed < MaxMoveCycles
    /\ \E m \in {step(Machine)} :
           /\ Commit(m, [call |-> "step", did |-> m.did, opcode |-> m.opcode,
                         threw |-> m.threw,
                         ret |-> IF m.threw THEN 0 ELSE m.cycles - cycles,
                         charged |-> m.charged,
                         prev |-> [did |-> last.did, opcode |-> last.opcode,
                                   pre |-> pre]], Regs)
           /\ elapsed' = elapsed + (m.cycles - cycles)
    /\ UNCHANGED <<resets, raises>>

\* cpu.nmiPending = true
MoveRaiseNMI ==
    /\ raises < MaxRaises
    /\ ~nmiPending
    /\ raises' = raises + 1
    /\ LET m == [Machine EXCEPT !.nmiPending = TRUE]
       IN  Commit(m, NoCall("raise"), RegsOf(m))
    /\ UNCHANGED <<resets, elapsed>>

MoveNext == MoveStep \/ MoveRaiseNMI

MoveSpec == MoveInit /\ [][MoveNext]_vars

(***************************************************************************)
(* The frame driver (core/emulator.js) over the CPU of core/cpu/cpu.js     *)
(***************************************************************************)
MaxFrames == 1        \* runFrame() calls made

cyclesPerFrame == 357366      \* Emulator.cyclesPerFrame
cyclesPerScanline == 1364     \* cyclesPerScanline of runFrame()

\* The write callbacks the Emulator constructor registers at 0x4200 (NMITIMEN)
\* and setupIOHandlers() at 0x420D (MEMSEL, which does nothing).
NMITIMEN == [id |-> \h4200, ret |-> 0]
MEMSEL == [id |-> \h420D, ret |-> 0]

\* The Memory of a new Emulator().
EmulatorMemory ==
    registerIOHandler(registerIOHandler(Fresh, \h4200, NoCallback, NMITIMEN),
                      \h420D, NoCallback, MEMSEL)

\* The 0x4200 write callback run for the callback invocations io, in order.
RECURSIVE writeNMITIMEN(_, _)
writeNMITIMEN(e, io) ==
    IF io = <<>> THEN e
    ELSE writeNMITIMEN(IF Head(io).id = NMITIMEN.id
                       THEN [e EXCEPT !.nmiEnabled = And(Head(io).v, \h80) # 0]
                       ELSE e,
                       Tail(io))

\* PPU.scanlineStep(): the blanking flag and the scanline counter.
scanlineStep(e) ==
    With([ppu \in {[e EXCEPT !.inVBlank = IF e.scanline < 224 THEN FALSE ELSE TRUE,
                             !.scanline = @ + 1]} |->
        IF ppu.scanline > 261
        THEN [ppu EXCEPT !.scanline = 0, !.inVBlank = FALSE]
        ELSE ppu ])

\* A variant of the scanline pass that raises the NMI line on every entry
\* into vertical blank, whatever nmiEnabled is.
scanlinePassUngated(st) ==
    With([ppu \in {scanlineStep(st.e)} |->
    With([enter \in {~st.a.wasInVBlank /\ ppu.inVBlank} |->
        [e |-> [ppu EXCEPT !.nmiFlag = IF enter THEN TRUE ELSE @],
         a |-> [st.a EXCEPT !.nextScanlineCycles = @ + cyclesPerScanline,
                            !.wasInVBlank = IF enter THEN TRUE
                                            ELSE IF @ /\ ~ppu.inVBlank THEN FALSE ELSE @],
         nmiPending |-> IF enter THEN TRUE ELSE st.nmiPending,
         passes |-> Append(st.passes,
                           [before |-> st.e.inVBlank, now |-> ppu.inVBlank,
                            pendingBefore |-> st.nmiPending,
                            pendingNow |-> IF enter THEN TRUE ELSE st.nmiPending,
                            from |-> st.a.nextScanlineCycles,
                            to |-> st.a.nextScanlineCycles + cyclesPerScanline])] ]) ])

\* One pass of the scanline loop of runFrame(): the PPU steps a scanline and,
\* on entry into vertical blank, the NMI line is raised if nmiEnabled.
scanlinePass(st) ==
    With([ppu \in {scanlineStep(st.e)} |->
    With([enter \in {~st.a.wasInVBlank /\ ppu.inVBlank} |->
        [e |-> [ppu EXCEPT !.nmiFlag = IF enter THEN TRUE ELSE @],
         a |-> [st.a EXCEPT !.nextScanlineCycles = @ + cyclesPerScanline,
                            !.wasInVBlank = IF enter THEN TRUE
                                            ELSE IF @ /\ ~ppu.inVBlank THEN FALSE ELSE @],
         nmiPending |-> IF enter /\ ppu.nmiEnabled THEN TRUE ELSE st.nmiPending,
         passes |-> Append(st.passes,
                           [before |-> st.e.inVBlank, now |-> ppu.inVBlank,
                            pendingBefore |-> st.nmiPending,
                            pendingNow |-> IF enter /\ ppu.nmiEnabled THEN TRUE
                                           ELSE st.nmiPending,
                            from |-> st.a.nextScanlineCycles,
                            to |-> st.a.nextScanlineCycles + cyclesPerScanline])] ]) ])

\* The scanline loop of runFrame().
RECURSIVE scanlineLoop(_)
scanlineLoop(st) ==
    IF st.a.cycles >= st.a.nextScanlineCycles /\ st.a.nextScanlineCycles <= cyclesPerFrame
    THEN scanlineLoop(scanlinePass(st))
    ELSE st

\* A variant of the loop condition that counts iterations only.
continuesByIterations(a) == a.iterations < cyclesPerScanline

\* The condition of the outer loop of runFrame().
continues(a) == a.cycles < cyclesPerFrame /\ a.iterations < cyclesPerFrame * 2

\* One iteration of the outer loop of runFrame(), the CPU having stepped to m:
\* a step of no cycles breaks out of the loop and the frame returns.
iteration(m) ==
    With([cpuCycles \in {m.cycles - cycles} |->
    With([st \in {[e |-> writeNMITIMEN(emulator,
                                       SubSeq(m.ioLog, Len(ioLog) + 1, Len(m.ioLog))),
                   a |-> [activation EXCEPT !.iterations = @ + 1,
                                            !.cycles = @ + cpuCycles],
                   nmiPending |-> m.nmiPending,
                   passes |-> <<>>]} |->
        IF cpuCycles = 0
        THEN [st EXCEPT !.e.masterClock = @ + st.a.cycles, !.a = Idle]
        ELSE scanlineLoop(st) ]) ])

\* Programs of the frame driver, in emulation mode. Each ends in the loop
\* BRK / BRA loop; the BRK handler and the NMI handler are a single RTI:
\*   the loop alone (0x4200 never written);
\*   LDA #$80 STA $4200; LDA #$80 STA $4200 LDA #$7F STA $4200;
\*   LDA #$00 STA $4200 LDA #$81 STA $4200.
FramePrograms ==
    { <<\h00, \h00, \h80, \hFC>>,
      <<\hA9, \h80, \h8D, \h00, \h42, \h00, \h00, \h80, \hFC>>,
      <<\hA9, \h80, \h8D, \h00, \h42, \hA9, \h7F, \h8D, \h00, \h42,
        \h00, \h00, \h80, \hFC>>,
      <<\hA9, \h00, \h8D, \h00, \h42, \hA9, \h81, \h8D, \h00, \h42,
        \h00, \h00, \h80, \hFC>> }

FrameImages == {Image(prog, <<\h00, \h80>>) : prog \in FramePrograms}

\* What a position of runFrame() was: the CPU step it made, the passes of the
\* scanline loop, the state before, and the NMI raises and entries into
\* vertical blank so far.
FrameCall(at, m, passes) ==
    [call |-> "runFrame", at |-> at, did |-> m.did, opcode |-> m.opcode,
     cpuCycles |-> m.cycles - cycles, passes |-> passes,
     before |-> [emulator |-> emulator, activation |-> activation,
                 nmiPending |-> nmiPending],
     raises |-> last.raises +
                Cardinality({i \in DOMAIN passes :
                                passes[i].pendingNow /\ ~passes[i].pendingBefore}),
     entries |-> last.entries +
                 Cardinality({i \in DOMAIN passes :
                                 passes[i].now /\ ~passes[i].before})]

\* emulator = new Emulator(); emulator.loadROM(image)
FrameInit ==
    \E image \in FrameImages :
        \E m \in {resetCore(loadROM(EmulatorMemory, image))} :
            /\ ConstructedFields(m)
            /\ last = [call |-> "loadROM", at |-> "return", did |-> "none", opcode |-> -1,
                       cpuCycles |-> 0, passes |-> <<>>,
                       before |-> [emulator |-> NewEmulator, activation |-> Idle,
                                   nmiPending |-> FALSE],
                       raises |-> 0, entries |-> 0]

\* emulator.runFrame(), up to its outer loop
RunFrameEnter ==
    /\ ~activation.active
    /\ calls < MaxFrames
    /\ calls' = calls + 1
    /\ activation' = [active |-> TRUE, cycles |-> 0, iterations |-> 0,
                      nextScanlineCycles |-> cyclesPerScanline,
                      wasInVBlank |-> emulator.inVBlank]
    /\ last' = FrameCall("enter", Machine, <<>>)
    /\ UNCHANGED <<cpuVars, busVars, busLog, pre, resets, raises, elapsed, emulator>>

\* one iteration of the outer loop of runFrame()
RunFrameIteration ==
    /\ activation.active
    /\ continues(activation)
    /\ \E m \in {stepCore(Machine)} :
           \E st \in {iteration(m)} :
               /\ CommitState([m EXCEPT !.nmiPending = st.nmiPending],
                              FrameCall("iteration", m, st.passes), Regs)
               /\ emulator' = st.e
               /\ activation' = st.a
    /\ UNCHANGED <<resets, raises, elapsed, calls>>

\* runFrame() from the end of its outer loop to its return
RunFrameReturn ==
    /\ activation.active
    /\ ~continues(activation)
    /\ emulator' = [emulator EXCEPT !.masterClock = @ + activation.cycles]
    /\ activation' = Idle
    /\ last' = FrameCall("return", Machine, <<>>)
    /\ UNCHANGED <<cpuVars, busVars, busLog, pre, resets, raises, elapsed, calls>>

FrameNext == RunFrameEnter \/ RunFrameIteration \/ RunFrameReturn

FrameSpec == FrameInit /\ [][FrameNext]_vars

(***************************************************************************)
(* The mapping functions called directly, as memory.test.js calls them     *)
(***************************************************************************)
MaxMapCalls == 2      \* mapLoROM / mapHiROM calls made

\* Banks on both sides of every bank boundary the mapping functions test,
\* with and without bit 7, and offsets on both sides of every offset
\* boundary.
MapBanks ==
    {\h00, \h01, \h3F, \h40, \h6F, \h70, \h7D, \h7E, \h7F,
     \h80, \h81, \hBF, \hC0, \hEF, \hF0, \hFD, \hFE, \hFF}
MapOffsets == {\h0000, \h1FFF, \h2000, \h5FFF, \h6000, \h7FFF, \h8000, \hFFFF}
MapAddresses == {bank * \h10000 + offset : bank \in MapBanks, offset \in MapOffsets}

\* memory = new Memory()
MapInit ==
    /\ ConstructedFields(Fresh)
    /\ last = [call |-> "new", a |-> 0, ret |-> [type |-> "open", addr |-> 0]]

\* memory.mapLoROM(address)
MapLoROM ==
    /\ calls < MaxMapCalls
    /\ \E address \in MapAddresses :
           last' = [call |-> "mapLoROM", a |-> address, ret |-> mapLoROM(address)]
    /\ calls' = calls + 1
    /\ UNCHANGED <<cpuVars, busVars, busLog, pre, resets, raises, elapsed, frameVars>>

\* memory.mapHiROM(address)
MapHiROM ==
    /\ calls < MaxMapCalls
    /\ \E address \in MapAddresses :
           last' = [call |-> "mapHiROM", a |-> address, ret |-> mapHiROM(address)]
    /\ calls' = calls + 1
    /\ UNCHANGED <<cpuVars, busVars, busLog, pre, resets, raises, elapsed, frameVars>>

MapNext == MapLoROM \/ MapHiROM

MapSpec == MapInit /\ [][MapNext]_vars


(***************************************************************************)
(* Cartridges loaded one after another into one Memory object, and reads   *)
(* that show which mapping function is in force.                           *)
(***************************************************************************)
MaxLoads == 2         \* loadROM calls made on the Memory object

\* memory = new Memory()
CartInit == ConstructedFields(Fresh) /\ last = BusNew

\* memory.loadROM(image)
CartLoadROM ==
    /\ calls < MaxLoads
    /\ \E image \in CartImages :
           \E m \in {loadROM(Machine, image)} :
               BusCommit(m, BusCall(m, "loadROM", 0, 0, 0, NoCallback, NoCallback))

\* memory.read(address) at ROM addresses the two mappers place differently;
\* reads do not count against the bound
CartRead ==
    /\ last.call # "read"
    /\ \E address \in {\h008000, \hC00000, \h00FFDC} :
           \E r \in {MemRead(Machine, address)} :
               /\ CommitState(r.m, BusCall(r.m, "read", address, 0, r.v,
                                           NoCallback, NoCallback), pre)
               /\ UNCHANGED <<resets, raises, elapsed, calls, frameVars>>

CartNext == CartLoadROM \/ CartRead

CartSpec == CartInit /\ [][CartNext]_vars

(***************************************************************************)
(* Properties                                                              *)
(***************************************************************************)
\* The state is the one a step() call has just returned into.
AfterStep == last.call = "step"

\* The IRQ-disable flag as it was when the call started.
PreIRQDisable == And(pre.P, IRQ_DISABLE) # 0

\* The 16-bit little-endian value the bus holds at address.
LE16At(address) == MemRead16(Machine, address).v

\* The call read nothing but the two bytes of the vector: no opcode fetch.
ReadsOnlyVector(vector) ==
    /\ last.opcode = -1
    /\ \A i \in DOMAIN busLog :
           busLog[i].k = "read" => busLog[i].a \in {vector, vector + 1}

\* The call serviced an interrupt through the given pair of vectors.
Serviced(kind, emuVector, nativeVector) ==
    /\ last.did = kind
    /\ ReadsOnlyVector(IF pre.emulationMode THEN emuVector ELSE nativeVector)
    /\ PC = LE16At(IF pre.emulationMode THEN emuVector ELSE nativeVector)

\* C1: every step() does exactly one of three things, in this order: it
\* services the NMI if nmiPending was true (whatever IRQ-disable and
\* irqPending were) and fetches no opcode; otherwise it services the IRQ if
\* irqPending was true and IRQ-disable clear, and fetches no opcode; otherwise
\* it fetches one opcode at PC and executes it (so a pending IRQ with
\* IRQ-disable set is left for the first step() that starts with the flag
\* clear and no NMI pending).
InterruptPriority ==
    AfterStep =>
        IF pre.nmiPending
        THEN Serviced("nmi", \hFFFA, \hFFEA)
        ELSE IF pre.irqPending /\ ~PreIRQDisable
        THEN Serviced("irq", \hFFFE, \hFFEE)
        ELSE /\ last.did = "op"
             /\ last.opcode \in 0..\hFF
             /\ Len(busLog) >= 1
             /\ busLog[1] = [k |-> "read", a |-> pre.PC]

\* A step() that started with both lines asserted and IRQ-disable clear, and
\* serviced the NMI.
NMIServicedBeforeIRQ ==
    /\ AfterStep
    /\ pre.nmiPending /\ pre.irqPending /\ ~PreIRQDisable
    /\ last.did = "nmi"

\* C2: after nmiPending was set and step() was called once, PC is the
\* little-endian word at the NMI vector (0xFFFA in emulation mode, 0xFFEA in
\* native mode), PBR is 0, IRQ-disable is set and nmiPending is false.
NMIService ==
    (AfterStep /\ pre.nmiPending) =>
        /\ PC = LE16At(IF pre.emulationMode THEN \hFFFA ELSE \hFFEA)
        /\ PBR = 0
        /\ getFlag(Machine, IRQ_DISABLE)
        /\ ~nmiPending

\* An NMI serviced in native mode: PC comes from the word at 0xFFEA.
NativeNMIServiced ==
    /\ AfterStep /\ pre.nmiPending /\ ~pre.emulationMode
    /\ PC = \hA000

\* C3: step() never changes irqPending (it is still true after the IRQ is
\* serviced), and changes nmiPending only from true to false, in the call
\* that services the NMI.
PendingLines ==
    AfterStep =>
        /\ irqPending = pre.irqPending
        /\ \/ nmiPending = pre.nmiPending
           \/ pre.nmiPending /\ ~nmiPending /\ last.did = "nmi"

\* An IRQ has just been serviced and the line is still asserted.
IRQServicedStillPending ==
    AfterStep /\ last.did = "irq" /\ irqPending

\* C4: in emulation mode the stack pointer stays in page 1.
StackPinnedToPageOne ==
    emulationMode => (S >= \h0100 /\ S <= \h01FF)

\* C5: in emulation mode the Accumulator-width and Index-width flags are set.
WidthFlagsPinned ==
    emulationMode => (getFlag(Machine, MEMORY_8BIT) /\ getFlag(Machine, INDEX_8BIT))

\* C6: step() completes without throwing, whatever opcode it fetched.
StepNeverThrows ==
    AfterStep => ~last.threw

\* C7: when no interrupt is serviced, step() fetches the opcode from the
\* 24-bit address (PBR << 16) | PC.
OpcodeFetchedFromProgramBank ==
    (AfterStep /\ last.did = "op") =>
        /\ Len(busLog) >= 1
        /\ busLog[1] = [k |-> "read", a |-> Or(Shl(pre.PBR, 16), pre.PC)]

\* C8: the data access of an absolute-mode LDA (0xAD) or STA (0x8D) with
\* 8-bit accumulator goes to the 24-bit address (DBR << 16) | operand.
AbsoluteAccessUsesDataBank ==
    (AfterStep /\ last.did = "op" /\ last.opcode \in {\hAD, \h8D}
        /\ And(pre.P, MEMORY_8BIT) # 0) =>
        /\ Len(busLog) = 4
        /\ busLog[4].a = Or(Shl(pre.DBR, 16), LE16At(pre.PC + 1))

\* The bits of P other than Carry.
NonCarry(p) == And(p, \hFE)

\* C9: opcode 0xFB sets Carry to the previous emulationMode and
\* emulationMode to the previous Carry.  Entering emulation mode sets both
\* width flags, makes S = 0x0100 | (S & 0xFF) and truncates X and Y to their
\* low bytes; otherwise no register changes but the Carry bit of P, PC and
\* cycles.
CarryExchange ==
    (AfterStep /\ last.did = "op" /\ last.opcode = \hFB) =>
        /\ getFlag(Machine, CARRY) = pre.emulationMode
        /\ emulationMode = (And(pre.P, CARRY) # 0)
        /\ emulationMode =>
              /\ getFlag(Machine, MEMORY_8BIT) /\ getFlag(Machine, INDEX_8BIT)
              /\ S = Or(\h0100, And(pre.S, \hFF))
              /\ X = And(pre.X, \hFF)
              /\ Y = And(pre.Y, \hFF)
        /\ ~emulationMode =>
              /\ A = pre.A /\ X = pre.X /\ Y = pre.Y /\ S = pre.S /\ D = pre.D
              /\ PBR = pre.PBR /\ DBR = pre.DBR
              /\ NonCarry(P) = NonCarry(pre.P)
              /\ nmiPending = pre.nmiPending /\ irqPending = pre.irqPending

\* Native mode, S = 0x1234, Carry set, then 0xFB: emulation mode, S = 0x0134.
CarryExchangeExample ==
    /\ AfterStep /\ last.did = "op" /\ last.opcode = \hFB
    /\ ~pre.emulationMode /\ pre.S = \h1234 /\ And(pre.P, CARRY) # 0
    /\ emulationMode /\ S = \h0134

\* C10: emulationMode is changed only by reset() and by a step() that
\* executes opcode 0xFB; every other opcode, the unimplemented-opcode path and
\* NMI/IRQ servicing leave it as it was.
ModeChangedOnlyByCarryExchange ==
    (emulationMode # pre.emulationMode) =>
        \/ last.call = "reset"
        \/ AfterStep /\ last.did = "op" /\ last.opcode = \hFB

\* An interrupt serviced in native mode, the mode unchanged.
NativeInterruptKeepsMode ==
    /\ AfterStep /\ last.did \in {"nmi", "irq"}
    /\ ~pre.emulationMode /\ ~emulationMode


\* The state is the one the constructor's reset() or a later reset() left.
AfterReset == last.call \in {"new", "reset"}

\* C11: from any prior state reset() leaves A = X = Y = D = PBR = DBR = 0,
\* S = 0x01FF, P = 0x34, emulationMode true, cycles 0 and both request
\* lines false.
ResetState ==
    AfterReset =>
        /\ A = 0 /\ X = 0 /\ Y = 0 /\ D = 0 /\ PBR = 0 /\ DBR = 0
        /\ S = \h01FF
        /\ P = \h34
        /\ emulationMode
        /\ cycles = 0
        /\ ~nmiPending /\ ~irqPending

\* reset() was called in native mode, after cycles had run, with IRQ asserted.
ResetFromNativeMode ==
    /\ last.call = "reset"
    /\ ~pre.emulationMode /\ pre.cycles > 0 /\ pre.irqPending /\ pre.S # \h01FF

\* C12: reset() sets PC to the little-endian word at 0xFFFC, except that the
\* words 0x0000 and 0xFFFF give the fallback 0x8000; it raises no error.
ResetVectorOrFallback ==
    AfterReset =>
        /\ ~last.threw
        /\ PC = IF LE16At(\hFFFC) \in {\h0000, \hFFFF} THEN \h8000 ELSE LE16At(\hFFFC)

\* reset() with no cartridge loaded: the vector reads 0xFFFF, PC is 0x8000.
ResetWithoutCartridge ==
    /\ last.call = "reset" /\ ~rom.loaded
    /\ LE16At(\hFFFC) = \hFFFF /\ PC = \h8000

NMICostsSevenCycles ==
    (AfterStep /\ last.did = "nmi") =>
        (last.ret = 7 /\ cycles = pre.cycles + 7)

\* C15: servicing an NMI lowers S by three (mod 0x10000).
NMIPushesThreeBytes ==
    (AfterStep /\ last.did = "nmi") => S = And(pre.S - 3, \hFFFF)

\* The step() executed an opcode of the given set and returned.
Executed(ops) == AfterStep /\ last.did = "op" /\ last.opcode \in ops /\ ~last.threw

\* The width flags as they were when the call started.
PreMemory8 == And(pre.P, MEMORY_8BIT) # 0
PreIndex8 == And(pre.P, INDEX_8BIT) # 0

\* ORA, AND, EOR, ADC, LDA and SBC in every addressing mode; PLA, TXA, TYA;
\* ASL A, LSR A, ROL A, ROR A, INC A, DEC A.
AccumulatorWriters ==
    { op \in 0..\hFF :
        /\ op \div 32 \in {0, 1, 2, 3, 5, 7}
        /\ op % 32 \in {\h01, \h03, \h05, \h07, \h09, \h0D, \h0F, \h11, \h12, \h13,
                        \h15, \h17, \h19, \h1D, \h1F} }
    \cup {\h68, \h8A, \h98, \h0A, \h4A, \h2A, \h6A, \h1A, \h3A}

\* LDX, TAX, TSX, TYX, PLX, INX, DEX and LDY, TAY, TXY, PLY, INY, DEY.
XWriters == {\hA2, \hA6, \hAE, \hB6, \hBE, \hAA, \hBA, \hBB, \hFA, \hE8, \hCA}
YWriters == {\hA0, \hA4, \hAC, \hB4, \hBC, \hA8, \h9B, \h7A, \hC8, \h88}

\* Zero and Negative in P are those of value at the width given by mask/sign.
FlagsOf(value, mask, sign) ==
    /\ getFlag(Machine, ZERO) = (And(value, mask) = 0)
    /\ getFlag(Machine, NEGATIVE) = (And(value, sign) # 0)

\* C17: with the Accumulator-width flag 8-bit, an instruction that writes A
\* leaves bits 8..15 of A as they were and sets Zero/Negative from the low
\* byte.
HighByteOfAPreserved ==
    (Executed(AccumulatorWriters) /\ PreMemory8) =>
        /\ And(A, \hFF00) = And(pre.A, \hFF00)
        /\ FlagsOf(A, \hFF, \h80)

\* C18: after an instruction that writes X or Y, Zero and Negative are
\* those of the register at the width the Index-width flag selects; after a
\* load or pull of A, at the width the Accumulator-width flag selects.
FlagsAtRegisterWidth ==
    /\ Executed(XWriters) =>
          FlagsOf(X, IF PreIndex8 THEN \hFF ELSE \hFFFF, IF PreIndex8 THEN \h80 ELSE \h8000)
    /\ Executed(YWriters) =>
          FlagsOf(Y, IF PreIndex8 THEN \hFF ELSE \hFFFF, IF PreIndex8 THEN \h80 ELSE \h8000)
    /\ Executed({\hA9, \hAD, \hA5, \h68}) =>
          FlagsOf(A, IF PreMemory8 THEN \hFF ELSE \hFFFF, IF PreMemory8 THEN \h80 ELSE \h8000)

\* The immediate operand of the executed instruction at the given width.
ImmediateOperand(mask) == And(LE16At(pre.PC + 1), mask)

\* A, Carry and Overflow are those of a + b + c at the width of mask/sign.
SumIs(a, b, c, mask, sign) ==
    /\ And(A, mask) = And(a + b + c, mask)
    /\ getFlag(Machine, CARRY) = (a + b + c > mask)
    /\ getFlag(Machine, OVERFLOW) =
          (And(And(Xor(a, a + b + c), Xor(b, a + b + c)), sign) # 0)

\* ADC #imm adds the operand, SBC #imm adds its one's complement.
ArithmeticAt(mask, sign) ==
    /\ Executed({\h69}) =>
          SumIs(And(pre.A, mask), ImmediateOperand(mask), And(pre.P, CARRY), mask, sign)
    /\ Executed({\hE9}) =>
          SumIs(And(pre.A, mask), Xor(ImmediateOperand(mask), mask), And(pre.P, CARRY),
                mask, sign)

\* C19: ADC and SBC work at the active accumulator width: 8-bit on
\* (A & 0xFF) whatever bits 8..15 of A hold, 16-bit otherwise, with Carry-in,
\* and Overflow from the sign-bit-mismatch formula.
ArithmeticAtActiveWidth ==
    IF PreMemory8 THEN ArithmeticAt(\hFF, \h80) ELSE ArithmeticAt(\hFFFF, \h8000)

\* C20: an immediate-mode instruction reads 1 or 2 operand bytes according
\* to the width flag of its own register, and PC advances by 1 plus that.
ImmediateOperandSize ==
    /\ Executed({\h09, \h29, \h49, \h69, \h89, \hA9, \hC9, \hE9}) =>
          /\ Len(busLog) = 1 + (IF PreMemory8 THEN 1 ELSE 2)
          /\ PC = And(pre.PC + 1 + (IF PreMemory8 THEN 1 ELSE 2), \hFFFF)
    /\ Executed({\hA0, \hA2, \hC0, \hE0}) =>
          /\ Len(busLog) = 1 + (IF PreIndex8 THEN 1 ELSE 2)
          /\ PC = And(pre.PC + 1 + (IF PreIndex8 THEN 1 ELSE 2), \hFFFF)

\* The bus stores what is written at address: it maps to WRAM or SRAM.
IsRAM(address) == mapper(boundMapper, address).type \in {"wram", "sram"}

\* pop8() has just returned, called right after push8(v); likewise 16-bit.
PoppedAfterPush8 == last.call = "pop8" /\ last.after = "push8"
PoppedAfterPush16 == last.call = "pop16" /\ last.after = "push16"

\* C16 as stated: push8(v) then pop8() returns v and S is as before the
\* push, and the same for push16(v) then pop16().
StackRoundTripAnywhere ==
    /\ PoppedAfterPush8 => (last.ret = last.afterArg /\ S = last.afterS0)
    /\ PoppedAfterPush16 => (last.ret = last.afterArg /\ S = last.afterS0)

\* C16: push decrements S after the write and pop increments S before the
\* read, modulo 0x10000, so push8(v) then pop8(), and push16(v) then pop16(),
\* leave S as before the push; the value popped is v whenever the stack
\* bytes written (S, and S - 1 for 16-bit) lie in RAM.
StackRoundTrip ==
    /\ last.call = "push8" => S = And(last.s0 - 1, \hFFFF)
    /\ last.call = "push16" => S = And(last.s0 - 2, \hFFFF)
    /\ PoppedAfterPush8 =>
          /\ S = last.afterS0
          /\ IsRAM(last.afterS0) => last.ret = last.afterArg
    /\ PoppedAfterPush16 =>
          /\ S = last.afterS0
          /\ (IsRAM(last.afterS0) /\ IsRAM(And(last.afterS0 - 1, \hFFFF)))
                => last.ret = last.afterArg

\* push8(0x42) at S = 0x0000 took S to 0xFFFF, and pop8() returned 0x42
\* with S back at 0x0000.
StackWrapsAtZero ==
    /\ PoppedAfterPush8
    /\ last.afterS0 = \h0000 /\ last.s0 = \hFFFF /\ last.afterArg = \h42
    /\ last.ret = \h42 /\ S = \h0000

\* The operand byte that follows the opcode of the last step.
OperandByte == MemRead(Machine, And(pre.PC + 1, \hFFFF)).v

\* The index a direct-page opcode adds to D + operand before its first
\* data access.
DirectIndex(op) ==
    IF op \in DirectXOpcodes \cup DirectXIndirectOpcodes THEN pre.X
    ELSE IF op \in DirectYOpcodes THEN pre.Y
    ELSE 0

\* C21: after a step that executed a direct-page opcode, the first access
\* after the opcode and operand fetches is at (D + operand [+ index]) mod
\* 0x10000.
DirectPageAddsD ==
    (Executed(DirectPageOpcodes) /\ ~last.threw) =>
        /\ Len(busLog) >= 3
        /\ busLog[3].a = And(pre.D + OperandByte + DirectIndex(last.opcode), \hFFFF)

\* The step just made fetched an opcode for which cpu.js stores no handler.
NoTableEntry == AfterStep /\ last.did = "op" /\ last.opcode \notin CoreOpcodes

\* C22: a step whose opcode has no table entry does not throw, makes one bus
\* access (the opcode fetch at PC, so no write), leaves every register but
\* PC and cycles as it was, advances PC by one and cycles by three, and
\* returns three.
UnimplementedOpcodeSkipped ==
    NoTableEntry =>
        /\ ~last.threw
        /\ busLog = <<[k |-> "read", a |-> pre.PC]>>
        /\ Regs = [pre EXCEPT !.PC = And(pre.PC + 1, \hFFFF), !.cycles = pre.cycles + 3]
        /\ last.ret = 3

\* XBA (0xEB), absent from the table of cpu.js, was fetched in native mode
\* with 16-bit registers and skipped.
UnimplementedOpcodeInNativeMode ==
    /\ NoTableEntry /\ last.opcode = \hEB
    /\ ~emulationMode /\ ~getFlag(Machine, MEMORY_8BIT)
    /\ PC = And(pre.PC + 1, \hFFFF) /\ cycles = pre.cycles + 3

\* The cartridges that hold a transfer program, and the word it loads.
TransferImages ==
    {Image(prog, resetBytes) :
        prog \in TransferPrograms, resetBytes \in {<<\h00, \h80>>, <<\h00, \h00>>}}
TransferWord == LE16At(\h8003)

\* The third step after reset on a transfer image: TAX fetched at 0x8005,
\* thirteen cycles after reset.
TransferDone ==
    /\ rom \in TransferImages
    /\ Executed({\hAA}) /\ pre.PC = \h8005 /\ cycles = 13

\* C23: after REP #$30, LDA #imm16, TAX from reset both width flags are
\* clear and A = X = imm16; for imm16 = 0 the Zero flag is set.
TransferEndToEnd ==
    TransferDone =>
        /\ ~getFlag(Machine, MEMORY_8BIT) /\ ~getFlag(Machine, INDEX_8BIT)
        /\ A = TransferWord /\ X = TransferWord
        /\ TransferWord = 0 => (X = 0 /\ getFlag(Machine, ZERO))
        /\ TransferWord # 0 => ~getFlag(Machine, ZERO)

\* The three steps ran on the image of the unit test (all-zero vectors,
\* imm16 = 0x0000) and left X = 0 with Zero set.
TransferOfZero ==
    /\ TransferDone /\ LE16At(\hFFFC) = 0 /\ TransferWord = 0
    /\ X = 0 /\ getFlag(Machine, ZERO)

\* The region an address maps to under the mapping function now bound.
RegionOf(address) == mapper(boundMapper, address).type
IsROM(address) == RegionOf(address) = "rom"

\* What a read of address returns in the current state.
ReadNow(address) == MemRead(Machine, address).v

\* The last call was read(a), made right after write(a, v).
ReadAfterWrite ==
    last.call = "read" /\ last.prev.call = "write" /\ last.prev.a = last.a

\* C24, as a state predicate: after write(addr, v) to a ROM address a read
\* of addr returns what it returned before the write, and so does the
\* read(addr) called next; the same for each byte dmaTransfer or write16
\* addressed in ROM.
ROMReadsUnchanged ==
    /\ (last.call \in {"write", "write16", "dmaTransfer"} /\ IsROM(last.a))
          => ReadNow(last.a) = last.old
    /\ (ReadAfterWrite /\ IsROM(last.a)) => last.ret = last.prev.old

\* C24: ROM is immutable through the bus: reads of ROM addresses are not
\* changed by writes, and only loadROM changes the ROM image.
ROMImmutable ==
    /\ []ROMReadsUnchanged
    /\ [][rom' # rom => last'.call = "loadROM"]_vars

\* write(0x808000, 0x99) on a loaded image whose first byte is 0x42, then
\* read(0x808000) returned 0x42.
ROMWriteThenRead ==
    /\ ReadAfterWrite /\ last.a = \h808000 /\ boundMapper = "lorom"
    /\ rom.loaded /\ last.prev.v = \h99 /\ last.ret = \h42

\* The last call was read(a) of an I/O address for which no read callback
\* is registered.
UnhandledIORead ==
    /\ last.call = "read" /\ RegionOf(last.a) = "io"
    /\ (last.a % \h10000 \notin DOMAIN ioHandlers
        \/ ioHandlers[last.a % \h10000].read = NoCallback)

\* C25 as stated: an unhandled I/O read returns 0xFF except at 0x4210 and
\* 0x4212.
OpenBusButTwo ==
    (UnhandledIORead /\ last.a % \h10000 \notin {\h4210, \h4212}) => last.ret = \hFF

\* C25: an unhandled I/O read returns 0x02 at 0x4210, 0x00 at 0x4211 and at
\* 0x4212, and 0xFF at every other address of the window; no callback runs.
OpenBusButThree ==
    UnhandledIORead =>
        /\ last.ret = (CASE last.a % \h10000 = \h4210 -> \h02
                         [] last.a % \h10000 = \h4211 -> \h00
                         [] last.a % \h10000 = \h4212 -> \h00
                         [] OTHER -> \hFF)
        /\ last.io = <<>>

\* read(0x004211) with nothing registered returned 0x00.
TimeUpReadsZero == UnhandledIORead /\ last.a = \h004211 /\ last.ret = \h00

\* Low banks whose first 8 KiB mirror work RAM, and the two forms of an
\* address of that window: in a low bank, or primary (bank 0x7E).
MirrorBanks == {\h00, \h3F, \h80, \hBF}
InLowBank(address) ==
    And(Shr(address, 16), \h7F) < \h40 /\ And(address, \hFFFF) < \h2000
IsPrimary(address) == address >= \h7E0000 /\ address < \h7E2000
Mirrored(address) == InLowBank(address) \/ IsPrimary(address)
OffsetOf(address) == And(address, \hFFFF)

\* C26: a byte written through a low-bank address below 0x2000 or through
\* its primary address 0x7E0000 + offset is read back through the primary
\* address and through every low-bank mirror, under both mappers; also by
\* the read(a') called next when a' is another form of the same address.
WorkRAMMirrored ==
    /\ (last.call = "write" /\ Mirrored(last.a)) =>
          /\ ReadNow(\h7E0000 + OffsetOf(last.a)) = And(last.v, \hFF)
          /\ \A b \in MirrorBanks :
                ReadNow(b * \h10000 + OffsetOf(last.a)) = And(last.v, \hFF)
    /\ (/\ last.call = "read" /\ last.prev.call = "write"
        /\ Mirrored(last.a) /\ Mirrored(last.prev.a)
        /\ OffsetOf(last.a) = OffsetOf(last.prev.a))
          => last.ret = And(last.prev.v, \hFF)

\* Under HiROM, write(0x7E0000, 0x42) then read(0x3F0000) returned 0x42.
MirrorReadBack ==
    /\ boundMapper = "hirom"
    /\ last.call = "read" /\ last.a = \h3F0000 /\ last.ret = \h42
    /\ last.prev.call = "write" /\ last.prev.a = \h7E0000 /\ last.prev.v = \h42

\* The two header locations detectMapper looks at in the loaded image.
CopierOffset == IF rom.length % 1024 = 512 THEN 512 ELSE 0
HeaderA == \h7FC0 + CopierOffset
HeaderB == \hFFC0 + CopierOffset

\* The image holds a header at h whose checksum and complement XOR to 0xFFFF.
PairAt(h) ==
    /\ h + \h30 <= rom.length
    /\ Xor(Cell(rom.bytes, h + \h1E) + 256 * Cell(rom.bytes, h + \h1F),
           Cell(rom.bytes, h + \h1C) + 256 * Cell(rom.bytes, h + \h1D)) = \hFFFF

\* What the other header bytes at h score: maker code, game code, ROM size.
OtherScore(h) ==
    IF h + \h30 > rom.length THEN 0
    ELSE Cardinality({i \in {\h10, \h12, \h13, \h14, \h15} :
                        Cell(rom.bytes, h + i) \in \h20..\h7E})
         + (IF Cell(rom.bytes, h + \h17) \in \h08..\h0D THEN 2 ELSE 0)

\* An image long enough for detection to look at headers is loaded.
HeadersExamined == rom.loaded /\ rom.length >= \h8000

\* C27 as stated: the location that alone holds a valid pair decides.
SignatureDecides ==
    HeadersExamined =>
        /\ (PairAt(HeaderA) /\ ~PairAt(HeaderB)) => mapperType = "lorom"
        /\ (PairAt(HeaderB) /\ ~PairAt(HeaderA)) => mapperType = "hirom"

\* C27: the location that alone holds a valid pair decides unless the other
\* header bytes of the other location outscore the pair's 4 points: more
\* than 4 ahead for HiROM to win, at least 4 ahead for LoROM to win.
SignatureDecidesWithinScore ==
    HeadersExamined =>
        /\ (PairAt(HeaderA) /\ ~PairAt(HeaderB)
                /\ OtherScore(HeaderB) <= OtherScore(HeaderA) + 4)
              => mapperType = "lorom"
        /\ (PairAt(HeaderB) /\ ~PairAt(HeaderA)
                /\ OtherScore(HeaderA) < OtherScore(HeaderB) + 4)
              => mapperType = "hirom"

\* A valid pair at the LoROM location only, the HiROM location scoring 4
\* with its other bytes: a tie, detected as LoROM.
SignatureTie ==
    /\ last.call = "loadROM" /\ HeadersExamined
    /\ PairAt(HeaderA) /\ ~PairAt(HeaderB)
    /\ OtherScore(HeaderA) = 0 /\ OtherScore(HeaderB) = 4
    /\ mapperType = "lorom"

\* C28: after construction and after every loadROM the bound mapping
\* function is that of mapperType; after loadROM an image is in place, an
\* image shorter than 0x8000 or with tied header scores is LoROM, and
\* otherwise the higher score decides; a read of 0xC00000 reaches ROM offset
\* 0 exactly when the image is detected as HiROM.
LoadROMConsistent ==
    /\ boundMapper = mapperType
    /\ last.call = "loadROM" =>
          /\ rom \in CartImages
          /\ rom.length < \h8000 => mapperType = "lorom"
          /\ (rom.length >= \h8000
                /\ validateHeader(rom, HeaderA) = validateHeader(rom, HeaderB))
                => mapperType = "lorom"
          /\ rom.length >= \h8000 =>
                (mapperType = "hirom"
                    <=> validateHeader(rom, HeaderB) > validateHeader(rom, HeaderA))
    /\ (last.call = "read" /\ last.a = \hC00000 /\ rom.loaded) =>
          last.ret = (IF mapperType = "hirom" THEN Cell(rom.bytes, 0) ELSE \hFF)

\* A LoROM image was loaded over one detected as HiROM, and the mapping
\* function followed.
ReloadedAsLoROM ==
    /\ last.call = "loadROM" /\ last.scheme = "hirom"
    /\ mapperType = "lorom" /\ boundMapper = "lorom" /\ rom.length = \h10000

\* What read(address) returns, from the region map and the arrays.
Stored(address) ==
    With([mapped \in {mapper(boundMapper, address)} |->
        CASE mapped.type = "wram" -> Cell(wram, mapped.addr % \h20000)
          [] mapped.type = "sram" -> Cell(sram, mapped.addr % \h20000)
          [] mapped.type = "rom" ->
                IF rom.loaded /\ mapped.addr < rom.length
                THEN Cell(rom.bytes, mapped.addr) ELSE \hFF
          [] OTHER -> \hFF ])

\* C29: read returns a byte for every address, a ROM address at or beyond
\* the image length (or with no image) reads 0xFF, a write to ROM or open
\* bus changes neither array, a write to RAM stores the low 8 bits at the
\* offset modulo 0x20000, and every cell holds a byte.
BusTotal ==
    /\ last.call = "read" =>
          /\ last.ret \in 0..255
          /\ RegionOf(last.a) # "io" => last.ret = Stored(last.a)
    /\ (last.call = "write" /\ RegionOf(last.a) \in {"wram", "sram"}) =>
          Stored(last.a) = last.v % 256
    /\ (last.call = "write" /\ RegionOf(last.a) \in {"rom", "open"}) =>
          (Stored(last.a) = last.old /\ busLog = <<[k |-> "write", a |-> last.a]>>)
    /\ \A i \in DOMAIN wram : i \in 0..(\h20000 - 1) /\ wram[i] \in 1..255
    /\ \A i \in DOMAIN sram : i \in 0..(\h20000 - 1) /\ sram[i] \in 1..255

\* write(0x740000, 0x99) under LoROM landed in save-RAM cell 0 (offset
\* 0x20000 modulo the array size) and the read that followed returned it.
SaveRAMWraps ==
    /\ boundMapper = "lorom"
    /\ last.call = "read" /\ last.a = \h740000 /\ last.ret = \h99
    /\ last.prev.call = "write" /\ last.prev.a = \h740000
    /\ Cell(sram, 0) = \h99

\* The default of an I/O read at offset address with no read callback.
DefaultRead(address) ==
    CASE address = \h4210 -> \h02
      [] address = \h4211 -> \h00
      [] address = \h4212 -> \h00
      [] OTHER -> \hFF

\* The table entry of the I/O address the last call accessed.
EntryNow ==
    IF last.a % \h10000 \in DOMAIN ioHandlers
    THEN ioHandlers[last.a % \h10000] ELSE NoEntry

\* C30: after registerIOHandler(a, rd, wr) the table entry of a is exactly
\* <rd, wr> whatever was registered before, and a read of a gives rd's value,
\* or the default where rd was omitted. A read or write of an I/O address
\* runs the callback of the address's entry alone, and where the entry has
\* none runs nothing: the read returns the default and the write is
\* discarded.
LastRegistrationWins ==
    /\ last.call = "registerIOHandler" =>
          /\ ioHandlers[last.a] = [read |-> last.rd, write |-> last.wr]
          /\ ReadNow(last.a) = (IF last.rd # NoCallback THEN last.rd.ret
                                ELSE DefaultRead(last.a))
    /\ (last.call = "read" /\ RegionOf(last.a) = "io") =>
          IF EntryNow.read # NoCallback
          THEN /\ last.ret = EntryNow.read.ret
               /\ last.io = <<[id |-> EntryNow.read.id, k |-> "read",
                               a |-> last.a % \h10000, v |-> last.ret]>>
          ELSE last.ret = DefaultRead(last.a % \h10000) /\ last.io = <<>>
    /\ (last.call = "write" /\ RegionOf(last.a) = "io") =>
          IF EntryNow.write # NoCallback
          THEN last.io = <<[id |-> EntryNow.write.id, k |-> "write",
                            a |-> last.a % \h10000, v |-> last.v]>>
          ELSE last.io = <<>>

\* A registration without a read callback replaced one that had a read
\* callback, and a read of the address now gives the default.
ReadCallbackDropped ==
    /\ last.call = "registerIOHandler" /\ last.rd = NoCallback
    /\ last.entry.read # NoCallback
    /\ last.prev.call = "registerIOHandler" /\ last.prev.a = last.a
    /\ ReadNow(last.a) = DefaultRead(last.a)

\* The bus accesses of dmaTransfer(0, source, dest, length): read(source + i)
\* then write(dest + i), for i = 0 .. length - 1 in ascending order.
DmaAccesses(source, dest, length) ==
    [n \in 1..(2 * length) |->
        IF n % 2 = 1 THEN [k |-> "read", a |-> source + (n - 1) \div 2]
        ELSE [k |-> "write", a |-> dest + (n \div 2) - 1]]

\* The callback a bus access runs: the read or write callback registered for
\* the I/O offset the address maps to, NoCallback where there is none.
CallbackOf(access) ==
    With([mapped \in {mapper(boundMapper, access.a)} |->
        IF mapped.type = "io" /\ mapped.addr \in DOMAIN ioHandlers
        THEN IF access.k = "read" THEN ioHandlers[mapped.addr].read
             ELSE ioHandlers[mapped.addr].write
        ELSE NoCallback ])

\* The callback invocations a sequence of bus accesses causes, in order.
RECURSIVE Invocations(_)
Invocations(accesses) ==
    IF accesses = <<>> THEN <<>>
    ELSE IF CallbackOf(Head(accesses)) = NoCallback THEN Invocations(Tail(accesses))
    ELSE <<[id |-> CallbackOf(Head(accesses)).id, k |-> Head(accesses).k,
            a |-> Head(accesses).a % \h10000]>> \o Invocations(Tail(accesses))

\* The RAM cell an address names: <<region, offset in the array>>.
RAMCell(address) ==
    With([mapped \in {mapper(boundMapper, address)} |->
        <<mapped.type, mapped.addr % \h20000>> ])

\* The last call was dmaTransfer between RAM ranges that do not overlap.
DisjointRAMCopy ==
    /\ last.call = "dmaTransfer"
    /\ \A i \in 0..(last.ret - 1) : IsRAM(last.v + i) /\ IsRAM(last.a + i)
    /\ \A i, j \in 0..(last.ret - 1) : RAMCell(last.v + i) # RAMCell(last.a + j)

\* C31: dmaTransfer(0, source, dest, length) makes exactly the accesses
\* read(source + i), write(dest + i) for i = 0 .. length - 1 in that order,
\* each registered callback on an address of either range runs once for the
\* byte copied through it and no other callback runs, and after a copy
\* between non-overlapping RAM ranges each destination byte equals the
\* source byte.
DmaByteByByte ==
    last.call = "dmaTransfer" =>
        /\ busLog = DmaAccesses(last.v, last.a, last.ret)
        /\ [n \in DOMAIN last.io |->
               [id |-> last.io[n].id, k |-> last.io[n].k, a |-> last.io[n].a]]
             = Invocations(busLog)
        /\ DisjointRAMCopy =>
              \A i \in 0..(last.ret - 1) : ReadNow(last.a + i) = ReadNow(last.v + i)

\* Three bytes were copied between non-overlapping work-RAM ranges, the
\* first of them a byte written just before.
DmaCopiedWrittenByte ==
    /\ DisjointRAMCopy /\ last.ret = 3
    /\ last.prev.call = "write" /\ last.prev.a = last.v
    /\ ReadNow(last.a) = \h99

\* The address lies outside cartridge ROM under both mappings: masked bank
\* below 0x40 with offset below 0x8000, or masked bank 0x7E or 0x7F.
SharedArea(address) ==
    \/ And(Shr(address, 16), \h7F) < \h40 /\ And(address, \hFFFF) < \h8000
    \/ And(Shr(address, 16), \h7F) \in {\h7E, \h7F}

\* The address with bit 7 of its bank flipped.
FlipBank(address) ==
    IF address >= \h800000 THEN address - \h800000 ELSE address + \h800000

\* C32: for an address outside cartridge ROM, mapLoROM and mapHiROM return
\* the same region and offset; and each of them maps an address and the
\* address with bank bit 7 flipped to the same region and offset.
SchemesAgree ==
    /\ (last.call \in {"mapLoROM", "mapHiROM"} /\ SharedArea(last.a)) =>
          last.ret = mapLoROM(last.a) /\ last.ret = mapHiROM(last.a)
    /\ last.call = "mapLoROM" => last.ret = mapLoROM(FlipBank(last.a))
    /\ last.call = "mapHiROM" => last.ret = mapHiROM(FlipBank(last.a))

\* mapHiROM mapped the start of the expansion window of bank 0xBF, which
\* mapLoROM maps to the same cell.
ExpansionWindowShared ==
    /\ last.call = "mapHiROM" /\ last.a = \hBF6000
    /\ last.ret = [type |-> "sram", addr |-> 0]
    /\ mapLoROM(\h3F6000) = last.ret

\* C34: every bus access step() makes is charged one cycle by read8 or
\* write8, so that the value returned is the number of bus accesses plus what
\* the table entry or the interrupt sequence adds on its own.
CyclesFromBusTraffic ==
    (AfterStep /\ ~last.threw) =>
        /\ last.charged = Len(busLog)
        /\ last.ret >= Len(busLog)

\* The last step() executed RTI, and the call before it was a step() that
\* serviced an NMI or an IRQ with the four stack bytes from S down in RAM.
RTIAfterInterrupt ==
    /\ AfterStep /\ last.did = "op" /\ last.opcode = \h40 /\ ~last.threw
    /\ last.prev.did \in {"nmi", "irq"}
    /\ \A i \in 0..3 : IsRAM(And(last.prev.pre.S - i, \hFFFF))

\* C35: an interrupt serviced and the RTI that is the first instruction of
\* its handler leave PC, PBR, S and P as they were before the interrupt was
\* serviced, in emulation mode and in native mode.
InterruptThenRTI ==
    RTIAfterInterrupt =>
        /\ PC = last.prev.pre.PC /\ PBR = last.prev.pre.PBR
        /\ S = last.prev.pre.S /\ P = last.prev.pre.P

\* The last step() executed RTL, and the step() before it executed JSL with
\* the three stack bytes from S down in RAM.
RTLAfterJSL ==
    /\ AfterStep /\ last.did = "op" /\ last.opcode = \h6B /\ ~last.threw
    /\ last.prev.did = "op" /\ last.prev.opcode = \h22
    /\ \A i \in 0..2 : IsRAM(And(last.prev.pre.S - i, \hFFFF))

\* C36: JSL at address a in bank b followed by RTL as the first instruction
\* of the target resumes at bank b, address (a + 4) mod 0x10000, with S as it
\* was before the JSL.
LongCallThenReturn ==
    RTLAfterJSL =>
        /\ PC = And(last.prev.pre.PC + 4, \hFFFF)
        /\ PBR = last.prev.pre.PBR
        /\ S = last.prev.pre.S

\* C37: in every state reached from reset() by step() calls, X and Y are at
\* most 0xFF whenever the Index-width flag says 8-bit: no instruction that
\* sets the flag leaves a high byte behind for indexed addressing to add.
IndexHighByteClear ==
    And(P, INDEX_8BIT) # 0 => (X <= \hFF /\ Y <= \hFF)

\* C38: in every state reached from reset() by step() calls and interrupt
\* requests, A, X, Y, S, D and PC are integers in 0..0xFFFF and PBR, DBR and
\* P are integers in 0..0xFF.
RegisterRanges ==
    /\ \A r \in {A, X, Y, S, D, PC} : r \in 0..\hFFFF
    /\ \A r \in {PBR, DBR, P} : r \in 0..\hFF

\* SBC #imm16 borrowed: the difference below zero was stored as a 16-bit
\* word.
SubtractionWrapped ==
    /\ AfterStep /\ last.opcode = \hE9 /\ ~emulationMode
    /\ And(pre.P, MEMORY_8BIT) = 0
    /\ pre.A = 0 /\ A = \hFFFF

\* The block-move opcodes, and the step() calls that executed one.
MoveOpcodes == {\h54, \h44}
MoveStepDone ==
    AfterStep /\ last.did = "op" /\ last.opcode \in MoveOpcodes /\ ~last.threw

\* The direction of a block-move opcode, and a pointer stepped k times.
MoveDelta(opcode) == IF opcode = \h54 THEN 1 ELSE -1
Stepped(pointer, opcode, k) == (pointer + k * MoveDelta(opcode)) % \h10000

\* The 24-bit source and destination of the byte moved with X = x and Y = y
\* by the block move at address pc: the operands are dest bank, source bank.
MoveSource(pc, x) == ReadNow((pc + 2) % \h10000) * \h10000 + x
MoveDest(pc, y) == ReadNow((pc + 1) % \h10000) * \h10000 + y

\* The count and the pointers the program loads before its block move, and
\* the address of the block move.
MoveCount == LE16At(\h8005)
MoveFrom == LE16At(\h8008)
MoveTo == LE16At(\h800B)
MoveAt == \h800D

\* An interrupt was serviced with PC on a block move, and its handler's RTI
\* has just returned.
MoveInterrupted ==
    /\ RTIAfterInterrupt
    /\ last.prev.pre.PC = MoveAt

\* C39: a step() on MVN or MVP reads one byte at (source bank, X) and writes
\* it at (destination bank, Y), steps X and Y by +1 (MVN) or -1 (MVP) and A
\* by -1, modulo 0x10000, and leaves PC on the opcode unless A has wrapped to
\* 0xFFFF; when A wraps, after count + 1 such steps, PC is on the following
\* instruction, X and Y have moved count + 1 places and the count + 1
\* destination bytes equal the source bytes; an interrupt serviced with PC
\* on the block move returns to the opcode with A, X and Y as they were.
BlockMoveTerminates ==
    /\ MoveStepDone =>
          /\ busLog = << [k |-> "read", a |-> pre.PC],
                         [k |-> "read", a |-> (pre.PC + 1) % \h10000],
                         [k |-> "read", a |-> pre.PC + 2],
                         [k |-> "read", a |-> MoveSource(pre.PC, pre.X)],
                         [k |-> "write", a |-> MoveDest(pre.PC, pre.Y)] >>
          /\ ReadNow(MoveDest(pre.PC, pre.Y)) = ReadNow(MoveSource(pre.PC, pre.X))
          /\ X = Stepped(pre.X, last.opcode, 1)
          /\ Y = Stepped(pre.Y, last.opcode, 1)
          /\ A = (pre.A - 1) % \h10000
          /\ PC = IF A = \hFFFF THEN (pre.PC + 3) % \h10000 ELSE pre.PC
    /\ (MoveStepDone /\ A = \hFFFF) =>
          /\ PC = MoveAt + 3
          /\ X = Stepped(MoveFrom, last.opcode, MoveCount + 1)
          /\ Y = Stepped(MoveTo, last.opcode, MoveCount + 1)
          /\ \A i \in 0..MoveCount :
                ReadNow(MoveDest(MoveAt, Stepped(MoveTo, last.opcode, i)))
                  = ReadNow(MoveSource(MoveAt, Stepped(MoveFrom, last.opcode, i)))
    /\ MoveInterrupted =>
          /\ PC = MoveAt /\ ReadNow(PC) \in MoveOpcodes
          /\ A = last.prev.pre.A /\ X = last.prev.pre.X /\ Y = last.prev.pre.Y

\* A three-byte MVN was interrupted after its first byte, resumed after the
\* handler's RTI and has now moved its last byte.
MoveResumedAndFinished ==
    /\ MoveStepDone /\ last.opcode = \h54 /\ A = \hFFFF /\ MoveCount = 2
    /\ raises > 0 /\ ~nmiPending
    /\ ReadNow(\h7E0012) = \hC2

(***************************************************************************)
(* The frame driver                                                        *)
(***************************************************************************)
AfterIteration == last.call = "runFrame" /\ last.at = "iteration"

\* The passes of the last iteration's scanline loop that set cpu.nmiPending.
RaisingPasses ==
    {i \in DOMAIN last.passes :
        last.passes[i].pendingNow /\ ~last.passes[i].pendingBefore}

\* The values written to register 0x4200 so far, in order.
WritesToNMITIMEN == SelectSeq(ioLog, LAMBDA r : r.k = "write" /\ r.a = \h4200)

\* Bit 7 of the last value written to register 0x4200 is 1.
NMIGenerationEnabled ==
    /\ WritesToNMITIMEN # <<>>
    /\ And(WritesToNMITIMEN[Len(WritesToNMITIMEN)].v, \h80) # 0

\* C33: during runFrame(), cpu.nmiPending is set to true only by a scanline
\* pass that takes the PPU from not in vertical blank to in vertical blank,
\* and only if bit 7 of the last value written to 0x4200 is 1; no other
\* position of runFrame() sets it, and it is set at most once per entry into
\* vertical blank.
NMIOnlyWhenEnabled ==
    /\ AfterIteration =>
          /\ \A i \in RaisingPasses :
                /\ ~last.passes[i].before
                /\ last.passes[i].now
                /\ NMIGenerationEnabled
          /\ nmiPending => RaisingPasses # {}
    /\ (last.call = "runFrame" /\ ~AfterIteration) =>
          nmiPending = last.before.nmiPending
    /\ last.call = "runFrame" => last.raises <= last.entries

\* C33 witness: NMI generation enabled, the PPU has entered vertical blank
\* and the pass that saw it raised the NMI line.
NMIRaisedOnVBlank ==
    /\ AfterIteration
    /\ RaisingPasses # {}
    /\ nmiPending
    /\ NMIGenerationEnabled
    /\ emulator.inVBlank
    /\ last.raises = 1 /\ last.entries = 1

\* C40: runFrame() terminates. Every iteration of its outer loop adds the
\* positive cycle count of cpu.step() to the frame total and one to the
\* iteration count, so the iterations never exceed the frame total, and the
\* loop, which runs only while the total is below cyclesPerFrame, is left
\* after at most cyclesPerFrame iterations, short of the safety limit of
\* twice that; every pass of the scanline loop increases nextScanlineCycles;
\* a frame that returns has added at least cyclesPerFrame to masterClock.
RunFrameTerminates ==
    /\ activation.active =>
          /\ activation.iterations <= activation.cycles
          /\ activation.iterations <= cyclesPerFrame
          /\ activation.iterations < cyclesPerFrame * 2
    /\ AfterIteration =>
          /\ last.cpuCycles >= 1
          /\ activation.active
          /\ last.before.activation.cycles < cyclesPerFrame
          /\ activation.cycles = last.before.activation.cycles + last.cpuCycles
          /\ activation.iterations = last.before.activation.iterations + 1
          /\ \A i \in DOMAIN last.passes :
                /\ last.passes[i].to > last.passes[i].from
                /\ last.passes[i].from <= cyclesPerFrame
    /\ (last.call = "runFrame" /\ last.at = "return") =>
          /\ last.before.activation.iterations <= cyclesPerFrame
          /\ last.before.activation.cycles >= cyclesPerFrame
          /\ emulator.masterClock >= last.before.emulator.masterClock + cyclesPerFrame

\* C40 witness: a frame has run to its return and masterClock has grown by
\* the cycles of the frame.
FrameCompleted ==
    /\ last.call = "runFrame" /\ last.at = "return"
    /\ ~activation.active
    /\ emulator.masterClock = last.before.activation.cycles
    /\ emulator.masterClock >= cyclesPerFrame
    /\ emulator.scanline = 261

====
